---- MODULE Spec2Model ----
(***************************************************************************)
(* Model of the Facts MCP server (bagaking/proj_facts_mcp): the knowledge  *)
(* store facade FactsManager over the FileManager storage, and the three   *)
(* MCP tools how_to_solve, record_insight and init_facts_system.           *)
(*                                                                         *)
(* Texts are TLA+ strings handled character by character.  Every maximal   *)
(* run of non-ASCII characters of a source template (CJK text, emoji) is   *)
(* written as the single character "?", except the three field labels of  *)
(* the commands file, which get a character of their own; the texts given  *)
(* to the operations are ASCII, so containment between them and template   *)
(* words is kept.  The back quote of the templates is written "'".        *)
(* Relevance scores are exact rationals in units of 1/ScoreScale.          *)
(***************************************************************************)
EXTENDS Integers, Sequences, FiniteSets, TLC

VARIABLES dirs, files, ret

vars == <<dirs, files, ret>>

(***************************************************************************)
(* Bounds of the model.                                                    *)
(***************************************************************************)
MaxDocs == 2
MaxWords == 2
MaxSections == 2

(***************************************************************************)
(* JavaScript string primitives.                                           *)
(***************************************************************************)
Char(s, i) == SubSeq(s, i, i)

UpperChars == {"A", "B", "C", "D", "E", "F", "G", "H", "I", "J", "K", "L", "M",
               "N", "O", "P", "Q", "R", "S", "T", "U", "V", "W", "X", "Y", "Z"}

LowerOf == [c \in UpperChars |->
    CASE c = "A" -> "a" [] c = "B" -> "b" [] c = "C" -> "c" [] c = "D" -> "d"
      [] c = "E" -> "e" [] c = "F" -> "f" [] c = "G" -> "g" [] c = "H" -> "h"
      [] c = "I" -> "i" [] c = "J" -> "j" [] c = "K" -> "k" [] c = "L" -> "l"
      [] c = "M" -> "m" [] c = "N" -> "n" [] c = "O" -> "o" [] c = "P" -> "p"
      [] c = "Q" -> "q" [] c = "R" -> "r" [] c = "S" -> "s" [] c = "T" -> "t"
      [] c = "U" -> "u" [] c = "V" -> "v" [] c = "W" -> "w" [] c = "X" -> "x"
      [] c = "Y" -> "y" [] c = "Z" -> "z"]

LowerChars == {LowerOf[c] : c \in UpperChars}

DigitChars == {"0", "1", "2", "3", "4", "5", "6", "7", "8", "9"}

WhiteChars == {" ", "\n", "\t"}

\* the first index in lo..hi of s holding a character of cs, 0 when none;
\* searched by halves
RECURSIVE firstIn(_, _, _, _)
firstIn(s, lo, hi, cs) ==
    IF lo > hi THEN 0
    ELSE IF lo = hi THEN (IF Char(s, lo) \in cs THEN lo ELSE 0)
    ELSE LET mid == (lo + hi) \div 2
             left == firstIn(s, lo, mid, cs)
         IN  IF left # 0 THEN left ELSE firstIn(s, mid + 1, hi, cs)

\* s from index lo on in lower case, one upper-case character at a time
RECURSIVE toLowerFrom(_, _)
toLowerFrom(s, lo) ==
    LET u == firstIn(s, lo, Len(s), UpperChars)
    IN  IF u = 0 THEN SubSeq(s, lo, Len(s))
        ELSE SubSeq(s, lo, u - 1) \o LowerOf[Char(s, u)] \o toLowerFrom(s, u + 1)

\* String.prototype.toLowerCase
toLowerCase(s) == toLowerFrom(s, 1)

\* a.includes(b)
includes(a, b) ==
    \E i \in 0..(Len(a) - Len(b)) : SubSeq(a, i + 1, i + Len(b)) = b

\* a.startsWith(b)
startsWith(a, b) == Len(b) <= Len(a) /\ SubSeq(a, 1, Len(b)) = b

\* a.endsWith(b)
endsWith(a, b) == Len(b) <= Len(a) /\ SubSeq(a, Len(a) - Len(b) + 1, Len(a)) = b

\* first index j >= i of s holding a character outside cs, Len(s)+1 when none
RECURSIVE nextNotIn(_, _, _)
nextNotIn(s, i, cs) ==
    IF i > Len(s) \/ Char(s, i) \notin cs THEN i ELSE nextNotIn(s, i + 1, cs)

\* last index j <= i of s holding a character outside cs, 0 when none
RECURSIVE prevNotIn(_, _, _)
prevNotIn(s, i, cs) ==
    IF i < 1 \/ Char(s, i) \notin cs THEN i ELSE prevNotIn(s, i - 1, cs)

\* String.prototype.trim
trim(s) == SubSeq(s, nextNotIn(s, 1, WhiteChars), prevNotIn(s, Len(s), WhiteChars))

\* the indices of s, in order
indices(s) == [i \in 1..Len(s) |-> i]

\* the pieces of s between the separators that start at the indices starts
\* and end at the indices ends
pieces(s, starts, ends) ==
    [j \in 1..(Len(starts) + 1) |->
        SubSeq(s, IF j = 1 THEN 1 ELSE ends[j - 1] + 1,
                  IF j = Len(starts) + 1 THEN Len(s) ELSE starts[j] - 1)]

\* s.split(/\s+/): a leading or trailing run of white space yields an empty
\* first or last token, and the empty string yields one empty token
splitWs(s) ==
    LET white(i) == Char(s, i) \in WhiteChars
        runStart(i) == white(i) /\ (i = 1 \/ ~white(i - 1))
        runEnd(i) == white(i) /\ (i = Len(s) \/ ~white(i + 1))
    IN  pieces(s, SelectSeq(indices(s), runStart), SelectSeq(indices(s), runEnd))

\* s.split(c) for a one-character separator c
splitChar(s, c) ==
    LET separator(i) == Char(s, i) = c
        at == SelectSeq(indices(s), separator)
    IN  pieces(s, at, at)

\* the elements lo..hi of a sequence of strings in one string, by halves
RECURSIVE concatRange(_, _, _)
concatRange(seq, lo, hi) ==
    IF lo > hi THEN ""
    ELSE IF lo = hi THEN seq[lo]
    ELSE LET mid == (lo + hi) \div 2
         IN  concatRange(seq, lo, mid) \o concatRange(seq, mid + 1, hi)

\* the parts of a template literal in one string
concat(seq) == concatRange(seq, 1, Len(seq))

\* Array.prototype.join
join(seq, sep) ==
    concat([i \in 1..(2 * Len(seq) - 1) |-> IF i % 2 = 1 THEN seq[(i + 1) \div 2] ELSE sep])

\* first index i >= from at which pat occurs in s, 0 when it does not
indexOfFrom(s, pat, from) ==
    LET hits == {i \in from..(Len(s) - Len(pat) + 1) : SubSeq(s, i, i + Len(pat) - 1) = pat}
    IN  IF hits = {} THEN 0 ELSE CHOOSE i \in hits : \A j \in hits : i <= j

\* s.replace(/[^...]/g, '') keeping the characters of keep, by halves
RECURSIVE keepRange(_, _, _, _)
keepRange(s, lo, hi, keep) ==
    IF lo > hi THEN ""
    ELSE IF lo = hi THEN (IF Char(s, lo) \in keep THEN Char(s, lo) ELSE "")
    ELSE LET mid == (lo + hi) \div 2
         IN  keepRange(s, lo, mid, keep) \o keepRange(s, mid + 1, hi, keep)

keepChars(s, keep) == keepRange(s, 1, Len(s), keep)

Range(seq) == {seq[i] : i \in DOMAIN seq}

Min(a, b) == IF a <= b THEN a ELSE b

Max(a, b) == IF a >= b THEN a ELSE b

(***************************************************************************)
(* Values of the JavaScript run time.                                      *)
(***************************************************************************)
\* the value undefined (no text of the model equals it)
UNDEFINED == "<undefined>"

\* obj[key] of an object whose properties are strings
Prop(obj, key) == IF key \in DOMAIN obj THEN obj[key] ELSE UNDEFINED

\* truthiness of a string-or-undefined value
Truthy(v) == v # UNDEFINED /\ v # ""

\* new Date().toISOString()
\* the clock has the resolution of a day
toISOString(date) == date \o "T00:00:00.000Z"

\* new Date(0).toISOString()
EpochISO == "1970-01-01T00:00:00.000Z"

\* a < b for strings of dates and time stamps: the first differing character
\* decides, a proper prefix is smaller (JavaScript string comparison on the
\* digits and separators of ISO dates)
RECURSIVE strLessFrom(_, _, _)
strLessFrom(a, b, i) ==
    IF i > Len(b) THEN FALSE
    ELSE IF i > Len(a) THEN TRUE
    ELSE IF Char(a, i) = Char(b, i) THEN strLessFrom(a, b, i + 1)
    ELSE LET order == "-0123456789:TZ"
         IN  indexOfFrom(order, Char(a, i), 1) < indexOfFrom(order, Char(b, i), 1)

(***************************************************************************)
(* Storage layout (FactsManager constructor, InitFactsSystemTool).         *)
(***************************************************************************)
\* process.cwd()
Cwd == "/work"

\* path.join(a, b)
pathJoin(a, b) == a \o "/" \o b

\* path.dirname(p)
dirname(p) ==
    LET parts == splitChar(p, "/")
    IN  join(SubSeq(parts, 1, Len(parts) - 1), "/")

\* path.basename(p, '.md')
basenameMd(p) ==
    LET parts == splitChar(p, "/")
        base == parts[Len(parts)]
    IN  IF endsWith(base, ".md") /\ Len(base) > 3
        THEN SubSeq(base, 1, Len(base) - 3) ELSE base

localDocsPath == pathJoin(pathJoin(Cwd, ".bkproj"), "facts")

userCommandPath == pathJoin(localDocsPath, "USER_COMMAND.md")

knowledgePath == pathJoin(localDocsPath, "KNOWLEDGE.md")

solutionsPath == pathJoin(localDocsPath, "solutions")

docsPath == pathJoin(localDocsPath, "docs")

(***************************************************************************)
(* Metadata parser, relevance scorer, summary (FactsManager).              *)
(***************************************************************************)
DefaultMetadata == [category |-> "technical", created_date |-> "", title |-> ""]

RECURSIVE metadataOfLines(_, _, _)
metadataOfLines(lines, i, metadata) ==
    IF i > Len(lines) THEN metadata
    ELSE LET parts == splitChar(lines[i], ":")
             key == parts[1]
             valueParts == Tail(parts)
         IN  IF key # "" /\ Len(valueParts) > 0
             THEN metadataOfLines(lines, i + 1,
                      (trim(key) :> trim(join(valueParts, ":"))) @@ metadata)
             ELSE metadataOfLines(lines, i + 1, metadata)

\* content.match(/^---\n([\s\S]*?)\n---/): 0 when there is no match, else the
\* index of the closing "\n---"
frontMatterEnd(content) ==
    IF startsWith(content, "---\n") THEN indexOfFrom(content, "\n---", 5) ELSE 0

parseInsightMetadata(content) ==
    LET e == frontMatterEnd(content)
    IN  IF e = 0 THEN DefaultMetadata
        ELSE metadataOfLines(splitChar(SubSeq(content, 5, e - 1), "\n"), 1, <<>>)

\* a relevance score num/den; every score of one query has the same den
Score(num, den) == [num |-> num, den |-> den]

\* a >= b for scores
ScoreGeq(a, b) == a.num * b.den >= b.num * a.den

\* calculateRelevance with every matching query word counted at the full
\* weight 0.4 and the sum returned as it is
calculateRelevance_rawSum(query, content, metadata) ==
    LET queryLower == toLowerCase(query)
        contentLower == toLowerCase(content)
        title == Prop(metadata, "title")
        titleMatch == title # UNDEFINED /\ includes(toLowerCase(title), queryLower)
        queryWords == splitWs(queryLower)
        contentWords == Range(splitWs(contentLower))
        matching(word) == \E contentWord \in contentWords :
                              includes(contentWord, word) \/ includes(word, contentWord)
        matchingWords == Len(SelectSeq(queryWords, matching))
        n == Len(queryWords)
        category == Prop(metadata, "category")
        categoryMatch == Truthy(category) /\ includes(queryLower, category)
        tagsValue == Prop(metadata, "tags")
        tags == <<tagsValue>>
        tagMatch(tag) == includes(queryLower, toLowerCase(tag))
                            \/ includes(toLowerCase(tag), queryLower)
        tagMatches == Len(SelectSeq(tags, tagMatch))
        num == (IF titleMatch THEN 4 * n ELSE 0)
                 + 4 * n * matchingWords
                 + (IF categoryMatch THEN n ELSE 0)
                 + (IF Truthy(tagsValue)
                    THEN (n * tagMatches) \div Max(Len(tags), 1) ELSE 0)
    IN  Score(num, 10 * n)

\* calculateRelevance with the weights exchanged: 0.1 for the title and for
\* the words, 0.4 for the category and for the tags
calculateRelevance_weightsExchanged(query, content, metadata) ==
    LET queryLower == toLowerCase(query)
        contentLower == toLowerCase(content)
        title == Prop(metadata, "title")
        titleMatch == title # UNDEFINED /\ includes(toLowerCase(title), queryLower)
        queryWords == splitWs(queryLower)
        contentWords == Range(splitWs(contentLower))
        matching(word) == \E contentWord \in contentWords :
                              includes(contentWord, word) \/ includes(word, contentWord)
        matchingWords == Len(SelectSeq(queryWords, matching))
        n == Len(queryWords)
        category == Prop(metadata, "category")
        categoryMatch == Truthy(category) /\ includes(queryLower, category)
        tagsValue == Prop(metadata, "tags")
        tags == <<tagsValue>>
        tagMatch(tag) == includes(queryLower, toLowerCase(tag))
                            \/ includes(toLowerCase(tag), queryLower)
        tagMatches == Len(SelectSeq(tags, tagMatch))
        num == (IF titleMatch THEN n ELSE 0)
                 + matchingWords
                 + (IF categoryMatch THEN 4 * n ELSE 0)
                 + (IF Truthy(tagsValue)
                    THEN (4 * n * tagMatches) \div Max(Len(tags), 1) ELSE 0)
    IN  Score(Min(num, 10 * n), 10 * n)

calculateRelevance(query, content, metadata) ==
    LET queryLower == toLowerCase(query)
        contentLower == toLowerCase(content)
        title == Prop(metadata, "title")
        titleMatch == title # UNDEFINED /\ includes(toLowerCase(title), queryLower)
        queryWords == splitWs(queryLower)
        contentWords == Range(splitWs(contentLower))
        matching(word) == \E contentWord \in contentWords :
                              includes(contentWord, word) \/ includes(word, contentWord)
        matchingWords == Len(SelectSeq(queryWords, matching))
        n == Len(queryWords)
        category == Prop(metadata, "category")
        categoryMatch == Truthy(category) /\ includes(queryLower, category)
        tagsValue == Prop(metadata, "tags")
        \* metadata.tags is never an array: the parser stores strings only
        tags == <<tagsValue>>
        tagMatch(tag) == includes(queryLower, toLowerCase(tag))
                            \/ includes(toLowerCase(tag), queryLower)
        tagMatches == Len(SelectSeq(tags, tagMatch))
        \* score * 10 * n, the four signals with weights 0.4, 0.4, 0.1, 0.1
        num == (IF titleMatch THEN 4 * n ELSE 0)
                 + 4 * matchingWords
                 + (IF categoryMatch THEN n ELSE 0)
                 + (IF Truthy(tagsValue)
                    THEN (n * tagMatches) \div Max(Len(tags), 1) ELSE 0)
    IN  Score(Min(num, 10 * n), 10 * n)

SummaryMinLen == 50

SummaryMaxLen == 200

\* the summary made of the first line long enough that is no heading
summaryOfLines(lines) ==
    LET meaningful(line) == Len(trim(line)) > SummaryMinLen /\ ~startsWith(trim(line), "#")
        found == SelectSeq(lines, meaningful)
    IN  IF found = <<>> THEN "No summary available"
        ELSE LET trimmed == trim(found[1])
             IN  SubSeq(trimmed, 1, Min(Len(trimmed), SummaryMaxLen))
                   \o (IF Len(trimmed) > SummaryMaxLen THEN "..." ELSE "")

extractSummary(content) ==
    \* content.replace(/^---[\s\S]*?---\n/, '')
    LET e == indexOfFrom(content, "---\n", 4)
        withoutFrontMatter == IF startsWith(content, "---") /\ e # 0
                              THEN SubSeq(content, e + 4, Len(content)) ELSE content
    IN  summaryOfLines(splitChar(withoutFrontMatter, "\n"))

(***************************************************************************)
(* Insight writer (FactsManager).                                          *)
(***************************************************************************)
FilenamePartLen == 30

\* s.replace(/[^a-zA-Z0-9一-龥]/g, '').substring(0, 30)
filenamePart(s) ==
    LET kept == keepChars(s, UpperChars \cup LowerChars \cup DigitChars)
    IN  SubSeq(kept, 1, Min(Len(kept), FilenamePartLen))

generateInsightFilename(insight) ==
    filenamePart(insight.task) \o "_" \o filenamePart(insight.solution) \o ".md"

getConfidenceDescription(confidence) ==
    CASE confidence = "high" -> "?"
      [] confidence = "medium" -> "?"
      [] confidence = "low" -> "?"
      [] OTHER -> "?"

\* formatInsightContent with the task as the title field of the header
formatInsightContent_withTitle(insight, date) ==
    concat(<< "---\n"
      , "title: " \o insight.task \o "\n"
      , "category: " \o insight.category \o "\n"
      , "confidence: " \o insight.confidence \o "\n"
      , "created_date: " \o date \o "\n"
      , "tags: [" \o insight.category \o "]\n"
      , "related_files: []\n"
      , "---\n"
      , "\n"
      , "# " \o insight.task \o " - ?\n"
      , insight.solution \o "\n"
      , insight.reasoning \o "\n" >>)

formatInsightContent(insight, date) ==
    LET evidence == insight.evidence
        evidenceText == join([i \in DOMAIN evidence |-> "- " \o evidence[i]], "\n")
    IN  concat(<< "---\n"
      , "category: " \o insight.category \o "\n"
      , "confidence: " \o insight.confidence \o "\n"
      , "created_date: " \o date \o "\n"
      , "tags: [" \o insight.category \o "]\n"
      , "related_files: []\n"
      , "---\n"
      , "\n"
      , "# " \o insight.task \o " - ?\n"
      , "\n"
      , "## ? ?\n"
      , insight.task \o "\n"
      , "\n"
      , "## ? ?\n"
      , insight.solution \o "\n"
      , "\n"
      , "## ? ? (Reasoning)\n"
      , insight.reasoning \o "\n"
      , "\n"
      , "## ? ?\n"
      , (IF evidenceText # "" THEN evidenceText ELSE "- ?") \o "\n"
      , "\n"
      , "## ? ?\n"
      , "*?*\n"
      , "\n"
      , "## ? ?\n"
      , "- **?**: " \o insight.confidence \o "\n"
      , "- **?**: ?\n"
      , "- **?**: *?*\n"
      , "\n"
      , "## ? ?\n"
      , "**?**: *?*\n"
      , "**?**: *?*\n"
      , "\n"
      , "---\n"
      , "*?: " \o toISOString(date) \o "*  \n"
      , "*?: " \o insight.confidence \o " - "
      , getConfidenceDescription(insight.confidence) \o "*" >>)

(***************************************************************************)
(* Command matcher (FactsManager).                                         *)
(***************************************************************************)
\* the labels of the commands file; "@", "&" and "^" stand for the Chinese
\* words for description, related docs and last updated
LabelsDescription == <<"**@**:", "**Description**:">>

LabelsRelatedDocs == <<"**&**:", "**Related Docs**:">>

LabelsLastUpdated == <<"**^**:", "**Last Updated**:">>

\* line.startsWith(l) for some label l of labels
hasLabel(line, labels) == \E i \in DOMAIN labels : startsWith(line, labels[i])

\* line.replace(/\*\*(label)\*\*:\s*/, '') for a line that starts with a label
stripLabel(line, labels) ==
    LET l == labels[CHOOSE i \in DOMAIN labels : startsWith(line, labels[i])]
    IN  SubSeq(line, nextNotIn(line, Len(l) + 1, WhiteChars), Len(line))

RECURSIVE piecesFrom(_, _, _)
piecesFrom(content, from, starts) ==
    LET later == {i \in starts : i >= from}
    IN  IF later = {} THEN <<SubSeq(content, from, Len(content))>>
        ELSE LET i == CHOOSE x \in later : \A y \in later : x <= y
             IN  <<SubSeq(content, from, i - 1)>> \o piecesFrom(content, i + 3, starts)

trimmedNonEmpty(d) == trim(d) # ""

RECURSIVE commandFields(_, _, _)
\* the loop over the lines of one section, cmd holding the fields so far
commandFields(lines, i, cmd) ==
    IF i > Len(lines) THEN cmd
    ELSE LET line == trim(lines[i])
         IN  IF hasLabel(line, LabelsDescription)
             THEN commandFields(lines, i + 1,
                      [cmd EXCEPT !.description = stripLabel(line, LabelsDescription)])
             ELSE IF hasLabel(line, LabelsRelatedDocs)
             THEN commandFields(lines, i + 1,
                      LET docs == splitChar(stripLabel(line, LabelsRelatedDocs), ",")
                      IN  [cmd EXCEPT !.relatedDocs =
                              SelectSeq([d \in DOMAIN docs |-> trim(docs[d])],
                                        trimmedNonEmpty)])
             ELSE IF hasLabel(line, LabelsLastUpdated)
             THEN commandFields(lines, i + 1,
                      [cmd EXCEPT !.lastUpdated = stripLabel(line, LabelsLastUpdated)])
             ELSE IF ~startsWith(line, "**") /\ line # "" /\ cmd.description = ""
             THEN commandFields(lines, i + 1, [cmd EXCEPT !.description = line])
             ELSE commandFields(lines, i + 1, cmd)

commandOfSection(section) ==
    LET lines == splitChar(section, "\n")
    IN  commandFields(lines, 2,
            [command |-> trim(lines[1]), description |-> "",
             lastUpdated |-> "", relatedDocs |-> <<>>])

RECURSIVE commandsOfSections(_)
commandsOfSections(sections) ==
    IF sections = <<>> THEN <<>>
    ELSE LET cmd == commandOfSection(Head(sections))
         IN  (IF cmd.command # "" /\ cmd.description # "" THEN <<cmd>> ELSE <<>>)
               \o commandsOfSections(Tail(sections))

parseUserCommands(content) ==
    \* content.split(/^## /m): the indices at which /^## /m matches
    LET sectionStarts == {i \in 1..(Len(content) - 2) :
                             /\ SubSeq(content, i, i + 2) = "## "
                             /\ (i = 1 \/ Char(content, i - 1) = "\n")}
        sections == piecesFrom(content, 1, sectionStarts)
    IN  commandsOfSections(SelectSeq(sections, trimmedNonEmpty))

\* the filter of getUserCommands on the name of the command only
commandMatches_nameOnly(cmd, query) ==
    LET commandLower == toLowerCase(cmd.command)
        queryWords == splitWs(toLowerCase(query))
    IN  \E i \in DOMAIN queryWords : includes(commandLower, queryWords[i])

\* the filter of getUserCommands
commandMatches(cmd, query) ==
    LET commandLower == toLowerCase(cmd.command)
        descLower == toLowerCase(cmd.description)
        queryWords == splitWs(toLowerCase(query))
    IN  \E i \in DOMAIN queryWords :
            LET word == queryWords[i]
            IN  \/ includes(commandLower, word)
                \/ includes(descLower, word)
                \/ (Len(word) > 2 /\ (includes(commandLower, word) \/ includes(descLower, word)))

(***************************************************************************)
(* Storage (FileManager over the file system).                             *)
(*                                                                         *)
(* A store st is [dirs, files]: the directories that exist and the text of *)
(* every file.  An environment env tells which calls of the file system    *)
(* fail during one operation and in which order readdir lists a directory: *)
(*   access, read, readdir, write, mkdir: the paths the call fails on;     *)
(*   solOrder, docOrder: the order of the entries of solutions/ and docs/. *)
(***************************************************************************)
Store(d, f) == [dirs |-> d, files |-> f]

NoFiles == [p \in {} |-> ""]

\* the directories on the way to p, p included
RECURSIVE prefixPaths(_, _)
prefixPaths(parts, k) ==
    IF k < 2 THEN {} ELSE {join(SubSeq(parts, 1, k), "/")} \cup prefixPaths(parts, k - 1)

dirsTo(p) == LET parts == splitChar(p, "/") IN prefixPaths(parts, Len(parts))

\* FileManager.exists: a failing fs.access is reported as absence
exists(st, env, p) ==
    (p \in st.dirs \/ p \in DOMAIN st.files) /\ p \notin env.access

\* the outcome of a call that reads: thrown, or the value returned
Ok(v) == [thrown |-> FALSE, value |-> v]

Thrown(msg) == [thrown |-> TRUE, value |-> msg]

\* the outcome of a call that writes: thrown or not, and the store it leaves
Done(st) == [thrown |-> FALSE, st |-> st]

Failed(st) == [thrown |-> TRUE, st |-> st]

\* FileManager.readFile
readFile(st, env, p) ==
    IF p \in DOMAIN st.files /\ p \notin env.read
    THEN Ok(st.files[p])
    ELSE Thrown("Failed to read file " \o p)

\* the names of the entries of directory d, as a set
entryNames(st, d) ==
    {SubSeq(q, Len(d) + 2, Len(q)) :
        q \in {x \in (DOMAIN st.files \cup st.dirs) : dirname(x) = d}}

\* FileManager.listFiles: the entries of d that st holds, in the order of env
listFiles(st, env, d) ==
    LET held(name) == name \in entryNames(st, d)
    IN  IF ~exists(st, env, d) THEN Ok(<<>>)
        ELSE IF d \in env.readdir THEN Thrown("Failed to list files in " \o d)
        ELSE IF d = solutionsPath THEN Ok(SelectSeq(env.solOrder, held))
        ELSE IF d = docsPath THEN Ok(SelectSeq(env.docOrder, held))
        ELSE Ok(<<>>)

\* FileManager.createDirectory: fs.mkdir(p, {recursive: true}) throws when
\* mkdir fails or a file is in the way
createDirectory(st, env, p) ==
    IF p \in env.mkdir \/ dirsTo(p) \cap DOMAIN st.files # {}
    THEN Failed(st)
    ELSE Done(Store(st.dirs \cup dirsTo(p), st.files))

\* writeFile that does not replace a file: fs.writeFile with the flag wx
writeFile_exclusive(st, env, p, content) ==
    LET made == createDirectory(st, env, dirname(p))
    IN  IF made.thrown THEN Failed(st)
        ELSE IF p \in env.write \/ p \in st.dirs \/ p \in DOMAIN st.files
        THEN Failed(made.st)
        ELSE Done(Store(made.st.dirs, (p :> content) @@ made.st.files))

\* FileManager.writeFile: creates the directory of p, then writes
writeFile(st, env, p, content) ==
    LET made == createDirectory(st, env, dirname(p))
    IN  IF made.thrown THEN Failed(st)
        ELSE IF p \in env.write \/ p \in st.dirs THEN Failed(made.st)
        ELSE Done(Store(made.st.dirs, (p :> content) @@ made.st.files))

\* an environment in which no call fails
WorkingEnv(solOrder, docOrder) ==
    [access |-> {}, read |-> {}, readdir |-> {}, write |-> {}, mkdir |-> {},
     solOrder |-> solOrder, docOrder |-> docOrder]

\* the sequences that list the set S once each
Perms(S) ==
    {f \in [1..Cardinality(S) -> S] : \A i, j \in 1..Cardinality(S) : f[i] = f[j] => i = j}

(***************************************************************************)
(* Knowledge store facade (FactsManager).                                  *)
(***************************************************************************)
DefaultMaxResults == 10

\* search options with the defaults of searchFactsInternal
DefaultOptions ==
    [maxResults |-> DefaultMaxResults,
     categories |-> <<"technical", "process", "decision", "pattern">>,
     minRelevance |-> Score(5, 10)]

RECURSIVE mdPaths(_, _)
\* the entries of names that end with .md, as paths in dir
mdPaths(dir, names) ==
    IF names = <<>> THEN <<>>
    ELSE (IF endsWith(Head(names), ".md") THEN <<pathJoin(dir, Head(names))>> ELSE <<>>)
           \o mdPaths(dir, Tail(names))

\* findInsightFiles with a catch that returns no file at all
findInsightFiles_dropAll(st, env) ==
    LET solutionFiles == IF exists(st, env, solutionsPath)
                         THEN listFiles(st, env, solutionsPath) ELSE Ok(<<>>)
        docFiles == IF exists(st, env, docsPath)
                    THEN listFiles(st, env, docsPath) ELSE Ok(<<>>)
    IN  IF solutionFiles.thrown \/ docFiles.thrown THEN <<>>
        ELSE mdPaths(solutionsPath, solutionFiles.value) \o mdPaths(docsPath, docFiles.value)

findInsightFiles(st, env) ==
    LET solutionFiles == IF exists(st, env, solutionsPath)
                         THEN listFiles(st, env, solutionsPath) ELSE Ok(<<>>)
        docFiles == IF exists(st, env, docsPath)
                    THEN listFiles(st, env, docsPath) ELSE Ok(<<>>)
    IN  IF solutionFiles.thrown THEN <<>>
        ELSE IF docFiles.thrown THEN mdPaths(solutionsPath, solutionFiles.value)
        ELSE mdPaths(solutionsPath, solutionFiles.value) \o mdPaths(docsPath, docFiles.value)

\* factOfFile without the test of the category
factOfFile_anyCategory(st, env, query, options, filePath) ==
    LET content == readFile(st, env, filePath)
    IN  IF content.thrown THEN <<>>
        ELSE LET metadata == parseInsightMetadata(content.value)
                 scored(relevanceScore) ==
                     IF ~ScoreGeq(relevanceScore, options.minRelevance) THEN <<>>
                     ELSE << [path |-> filePath,
                              title |-> IF Truthy(Prop(metadata, "title"))
                                        THEN metadata.title ELSE basenameMd(filePath),
                              category |-> Prop(metadata, "category"),
                              relevanceScore |-> relevanceScore,
                              summary |-> extractSummary(content.value),
                              lastUpdated |-> IF Truthy(Prop(metadata, "created_date"))
                                              THEN metadata.created_date ELSE ""] >>
             IN  scored(calculateRelevance(query, content.value, metadata))

\* the search result of one file, or none
factOfFile(st, env, query, options, filePath) ==
    LET content == readFile(st, env, filePath)
    IN  IF content.thrown THEN <<>>
        ELSE LET metadata == parseInsightMetadata(content.value)
                 category == Prop(metadata, "category")
             IN  IF category \notin Range(options.categories) THEN <<>>
                 ELSE LET scored(relevanceScore) ==
                              IF ~ScoreGeq(relevanceScore, options.minRelevance) THEN <<>>
                              ELSE << [path |-> filePath,
                                       title |-> IF Truthy(Prop(metadata, "title"))
                                                 THEN metadata.title
                                                 ELSE basenameMd(filePath),
                                       category |-> category,
                                       relevanceScore |-> relevanceScore,
                                       summary |-> extractSummary(content.value),
                                       lastUpdated |->
                                         IF Truthy(Prop(metadata, "created_date"))
                                         THEN metadata.created_date ELSE ""] >>
                      IN  scored(calculateRelevance(query, content.value, metadata))

RECURSIVE factsOfFiles(_, _, _, _, _)
factsOfFiles(st, env, query, options, paths) ==
    IF paths = <<>> THEN <<>>
    ELSE factOfFile(st, env, query, options, Head(paths))
           \o factsOfFiles(st, env, query, options, Tail(paths))

\* doc put after the elements of sorted that do not score lower: the stable
\* sort by (a, b) => b.relevanceScore - a.relevanceScore, one element at a time
RECURSIVE insertByScore(_, _)
insertByScore(sorted, doc) ==
    IF sorted = <<>> THEN <<doc>>
    ELSE IF ScoreGeq(Head(sorted).relevanceScore, doc.relevanceScore)
    THEN <<Head(sorted)>> \o insertByScore(Tail(sorted), doc)
    ELSE <<doc>> \o sorted

RECURSIVE sortByScore(_, _)
sortByScore(docs, sorted) ==
    IF docs = <<>> THEN sorted
    ELSE sortByScore(Tail(docs), insertByScore(sorted, Head(docs)))

\* searchFactsInternal without the catch around one file: a failing read
\* reaches the outer catch, which returns no result
searchFactsInternal_abortOnRead(st, env, query, options) ==
    IF ~exists(st, env, localDocsPath) THEN <<>>
    ELSE LET insightFiles == findInsightFiles(st, env)
             slice(sorted) == SubSeq(sorted, 1, Min(Len(sorted), options.maxResults))
         IN  IF \E p \in Range(insightFiles) : readFile(st, env, p).thrown THEN <<>>
             ELSE slice(sortByScore(factsOfFiles(st, env, query, options, insightFiles),
                                    <<>>))

\* searchFactsInternal without the sort: the results in the order of the scan
searchFactsInternal_unsorted(st, env, query, options) ==
    IF ~exists(st, env, localDocsPath) THEN <<>>
    ELSE LET slice(found) == SubSeq(found, 1, Min(Len(found), options.maxResults))
         IN  slice(factsOfFiles(st, env, query, options, findInsightFiles(st, env)))

searchFactsInternal(st, env, query, options) ==
    IF ~exists(st, env, localDocsPath) THEN <<>>
    ELSE LET slice(sorted) == SubSeq(sorted, 1, Min(Len(sorted), options.maxResults))
         IN  slice(sortByScore(factsOfFiles(st, env, query, options,
                                            findInsightFiles(st, env)), <<>>))

getUserCommands(st, env, query) ==
    IF ~exists(st, env, userCommandPath) THEN <<>>
    ELSE LET content == readFile(st, env, userCommandPath)
         IN  IF content.thrown THEN <<>>
             ELSE LET matches(cmd) == commandMatches(cmd, query)
                  IN  SelectSeq(parseUserCommands(content.value), matches)

\* the search result made of a command; "?" is the Chinese title prefix
commandFact(cmd) ==
    [path |-> userCommandPath,
     title |-> "?: " \o cmd.command,
     category |-> "command",
     relevanceScore |-> Score(1, 1),
     summary |-> cmd.description,
     lastUpdated |-> cmd.lastUpdated,
     relatedDocs |-> cmd.relatedDocs]

\* searchFacts with the command results appended to the document results
searchFacts_documentsFirst(st, env, query, options) ==
    LET results(userCommands, normalFacts) ==
            IF Len(userCommands) > 0
            THEN normalFacts
                   \o [i \in DOMAIN userCommands |-> commandFact(userCommands[i])]
            ELSE normalFacts
    IN  results(getUserCommands(st, env, query),
                searchFactsInternal(st, env, query, options))

searchFacts(st, env, query, options) ==
    LET results(userCommands, normalFacts) ==
            IF Len(userCommands) > 0
            THEN [i \in DOMAIN userCommands |-> commandFact(userCommands[i])]
                   \o normalFacts
            ELSE normalFacts
    IN  results(getUserCommands(st, env, query),
                searchFactsInternal(st, env, query, options))

RECURSIVE contextOfFiles(_, _, _, _)
\* the loop of getProjectContext; acc holds categories and lastActivity
contextOfFiles(st, env, paths, acc) ==
    IF paths = <<>> THEN acc
    ELSE LET content == readFile(st, env, Head(paths))
         IN  IF content.thrown THEN contextOfFiles(st, env, Tail(paths), acc)
             ELSE LET metadata == parseInsightMetadata(content.value)
                      category == Prop(metadata, "category")
                      created == Prop(metadata, "created_date")
                  IN  contextOfFiles(st, env, Tail(paths),
                          [categories |-> IF category \in Range(acc.categories)
                                          THEN acc.categories
                                          ELSE Append(acc.categories, category),
                           lastActivity |-> IF Truthy(created) /\ strLessFrom(acc.lastActivity, created, 1)
                                            THEN created ELSE acc.lastActivity])

\* getProjectContext without the test that the root exists
getProjectContext_scanAlways(st, env, date) ==
    LET insightFiles == findInsightFiles(st, env)
        context(acc) ==
            Ok([currentPath |-> Cwd, hasLocalDocs |-> TRUE,
                factCount |-> Len(insightFiles),
                categories |-> acc.categories,
                lastActivity |-> IF acc.lastActivity = EpochISO
                                 THEN toISOString(date) ELSE acc.lastActivity])
    IN  context(contextOfFiles(st, env, insightFiles,
                               [categories |-> <<>>, lastActivity |-> EpochISO]))

getProjectContext(st, env, date) ==
    IF ~exists(st, env, localDocsPath)
    THEN Ok([currentPath |-> Cwd, hasLocalDocs |-> FALSE, factCount |-> 0,
             categories |-> <<>>, lastActivity |-> toISOString(date)])
    ELSE LET insightFiles == findInsightFiles(st, env)
             context(acc) ==
                 Ok([currentPath |-> Cwd, hasLocalDocs |-> TRUE,
                     factCount |-> Len(insightFiles),
                     categories |-> acc.categories,
                     lastActivity |-> IF acc.lastActivity = EpochISO
                                      THEN toISOString(date) ELSE acc.lastActivity])
         IN  context(contextOfFiles(st, env, insightFiles,
                                    [categories |-> <<>>, lastActivity |-> EpochISO]))

\* initializeLocalDocs with fs.mkdir not recursive: a directory that exists
\* makes it throw
initializeLocalDocs_failIfPresent(st, env) ==
    IF {localDocsPath, solutionsPath, docsPath} \cap st.dirs # {} THEN Failed(st)
    ELSE createDirectory(createDirectory(createDirectory(st, env, localDocsPath).st,
                                         env, solutionsPath).st, env, docsPath)

initializeLocalDocs(st, env) ==
    LET a == createDirectory(st, env, localDocsPath)
        b == createDirectory(a.st, env, solutionsPath)
        c == createDirectory(b.st, env, docsPath)
    IN  IF a.thrown THEN a ELSE IF b.thrown THEN b ELSE c

RECURSIVE fileEntries(_, _, _, _, _)
\* the loop of getSolutionFiles and getDocFiles over the listed names
fileEntries(st, env, dir, names, date) ==
    IF names = <<>> THEN <<>>
    ELSE LET fileName == Head(names)
             content == readFile(st, env, pathJoin(dir, fileName))
         IN  (IF endsWith(fileName, ".md") /\ ~content.thrown
              THEN << [path |-> pathJoin(dir, fileName), name |-> fileName,
                       lastModified |-> toISOString(date),
                       summary |-> extractSummary(content.value)] >>
              ELSE <<>>)
               \o fileEntries(st, env, dir, Tail(names), date)

\* getSolutionFiles that finds no file
getSolutionFiles_none(st, env, date) == <<>>

\* the entries all carry the time stamp of the scan, so that the final sort
\* by lastModified leaves the order of the listing
getSolutionFiles(st, env, date) ==
    LET fileList == IF exists(st, env, solutionsPath)
                    THEN listFiles(st, env, solutionsPath) ELSE Ok(<<>>)
    IN  IF fileList.thrown THEN <<>>
        ELSE fileEntries(st, env, solutionsPath, fileList.value, date)

getDocFiles(st, env, date) ==
    LET fileList == IF exists(st, env, docsPath)
                    THEN listFiles(st, env, docsPath) ELSE Ok(<<>>)
    IN  IF fileList.thrown THEN <<>>
        ELSE fileEntries(st, env, docsPath, fileList.value, date)

\* the ASCII terms of techTerms; its Chinese terms occur in no ASCII file name
techTerms ==
    <<"React", "Vue", "Angular", "Node.js", "TypeScript", "JavaScript", "Python",
      "Java", "Go", "Rust", "Docker", "Kubernetes", "AWS", "Azure", "GCP", "MySQL",
      "PostgreSQL", "MongoDB", "Redis", "GraphQL", "REST", "API", "JWT", "CI/CD",
      "DevOps">>

termInName(term, fileName) ==
    includes(toLowerCase(fileName), toLowerCase(term)) \/ includes(fileName, term)

\* the terms found in the file names, in the order the Set receives them
RECURSIVE keywordsOf(_, _, _)
keywordsOf(fileNames, i, keywords) ==
    IF i > Len(fileNames) THEN keywords
    ELSE LET new(term) == termInName(term, fileNames[i]) /\ term \notin Range(keywords)
         IN  keywordsOf(fileNames, i + 1, keywords \o SelectSeq(techTerms, new))

RECURSIVE keywordCounts(_, _)
keywordCounts(keywords, fileNames) ==
    IF keywords = <<>> THEN <<>>
    ELSE LET k == Head(keywords)
             matches(f) == termInName(k, f)
         IN  <<k \o "(" \o ToString(Len(SelectSeq(fileNames, matches))) \o ")">>
               \o keywordCounts(Tail(keywords), fileNames)

extractTechKeywords(fileNames) ==
    keywordCounts(keywordsOf(fileNames, 1, <<>>), fileNames)

RECURSIVE entryLines(_)
\* one line of the index per file; "(?" is the Chinese "(last modified:"
entryLines(entries) ==
    IF entries = <<>> THEN <<>>
    ELSE LET file == Head(entries)
             dateStr == splitChar(file.lastModified, "T")[1]
         IN  <<"- '" \o file.name \o "' - " \o file.summary \o " (?" \o dateStr \o ")">>
               \o entryLines(Tail(entries))

generateKnowledgeContent(solutionFiles, docFiles, context, date) ==
    LET timestamp == toISOString(date)
        allFiles == solutionFiles \o docFiles
        techKeywords == extractTechKeywords([i \in DOMAIN allFiles |-> allFiles[i].name])
    IN  concat(<< "---\n"
      , "auto_generated: true  \n"
      , "last_updated: " \o timestamp \o "\n"
      , "total_solutions: " \o ToString(Len(solutionFiles)) \o "\n"
      , "total_docs: " \o ToString(Len(docFiles)) \o "\n"
      , "total_documents: " \o ToString(Len(solutionFiles) + Len(docFiles)) \o "\n"
      , "---\n"
      , "\n"
      , "# ? Facts Knowledge Base ?\n"
      , "\n"
      , "> ?\n"
      , "\n"
      , "## ? Solutions (?) - ?" \o ToString(Len(solutionFiles)) \o "?\n"
      , "\n"
      , (IF Len(solutionFiles) > 0 THEN join(entryLines(solutionFiles), "\n")
         ELSE "*? - ?*") \o "\n"
      , "\n"
      , "## ? Docs (?) - ?" \o ToString(Len(docFiles)) \o "?  \n"
      , "\n"
      , (IF Len(docFiles) > 0 THEN join(entryLines(docFiles), "\n")
         ELSE "*? - ?*") \o "\n"
      , "\n"
      , "## ? ?\n"
      , "\n"
      , (IF Len(techKeywords) > 0 THEN join(techKeywords, " ") ELSE "?") \o "\n"
      , "\n"
      , "## ? ?\n"
      , "\n"
      , "### ?\n"
      , "1. ? 'how_to_solve \"?\"' ?\n"
      , "2. Agent?  \n"
      , "3. ?\n"
      , "\n"
      , "### ?\n"
      , "1. ? 'record_insight' ?\n"
      , "2. ?\n"
      , "3. ?\n"
      , "\n"
      , "---\n"
      , "*?" \o splitChar(join(splitChar(timestamp, "T"), " "), ".")[1] \o "*" >>)

\* updateKnowledge without its catch: a failing write of the index is thrown
updateKnowledge_rethrow(st, env, date) ==
    LET context == getProjectContext(st, env, date)
    IN  IF context.thrown THEN Failed(st)
        ELSE writeFile(st, env, knowledgePath,
                       generateKnowledgeContent(getSolutionFiles(st, env, date),
                                                getDocFiles(st, env, date),
                                                context.value, date))

\* the rebuild of the index; every failure is caught and logged
updateKnowledge(st, env, date) ==
    LET context == getProjectContext(st, env, date)
    IN  IF context.thrown THEN Done(st)
        ELSE Done(writeFile(st, env, knowledgePath,
                            generateKnowledgeContent(getSolutionFiles(st, env, date),
                                                     getDocFiles(st, env, date),
                                                     context.value, date)).st)

\* the path and the text of the document recordInsight writes
insightPath(insight) == pathJoin(solutionsPath, generateInsightFilename(insight))

\* recordInsight with the index rebuilt before the document is written
recordInsight_indexFirst(st, env, insight, date) ==
    writeFile(updateKnowledge(st, env, date).st, env, insightPath(insight),
              formatInsightContent(insight, date))

\* recordInsight with the rebuild of the index run whether or not the
\* document was written
recordInsight_rebuildAlways(st, env, insight, date) ==
    LET written == writeFile(st, env, insightPath(insight),
                             formatInsightContent(insight, date))
    IN  IF written.thrown THEN Failed(updateKnowledge(written.st, env, date).st)
        ELSE updateKnowledge(written.st, env, date)

recordInsight(st, env, insight, date) ==
    LET written == writeFile(st, env, insightPath(insight),
                             formatInsightContent(insight, date))
    IN  IF written.thrown THEN written
        ELSE updateKnowledge(written.st, env, date)

(***************************************************************************)
(* Tool layer: how_to_solve and record_insight.                            *)
(*                                                                         *)
(* Arguments are records; an absent property is UNDEFINED, an optional     *)
(* array is <<>> when absent and <<array>> when given.                     *)
(***************************************************************************)
Categories == {"technical", "process", "decision", "pattern"}

\* input.x || []
arrayOr(opt, default) == IF opt = <<>> THEN default ELSE opt[1]

\* HowToSolveInputSchema.parse: throws unless problem is a string and priority,
\* when given, is in its enumeration; priority defaults to medium
HowToSolveInputSchema(args) ==
    IF args.problem = UNDEFINED \/ args.priority \notin {"high", "medium", "low", UNDEFINED}
    THEN Thrown("ZodError")
    ELSE Ok([args EXCEPT !.priority = IF @ = UNDEFINED THEN "medium" ELSE @])

\* RecordInsightInputSchema.parse
RecordInsightInputSchema(args) ==
    IF \/ args.task = UNDEFINED \/ args.solution = UNDEFINED \/ args.reasoning = UNDEFINED
       \/ args.category \notin Categories
       \/ args.confidence \notin {"high", "medium", "low", UNDEFINED}
    THEN Thrown("ZodError")
    ELSE Ok([args EXCEPT !.confidence = IF @ = UNDEFINED THEN "medium" ELSE @])

\* the envelope of a failure caught by a tool
failureEnvelope(message, date) ==
    [success |-> FALSE, message |-> message, data |-> UNDEFINED,
     timestamp |-> toISOString(date)]

analyzeProblemComplexity(problem, constraints) ==
    LET problemLower == toLowerCase(problem)
        constraintCount == Len(constraints)
        someIncluded(text, keywords) == \E k \in keywords : includes(text, k)
    IN  IF constraintCount > 3
           \/ someIncluded(problemLower, {"architecture", "system", "integration",
                                          "multiple", "distributed", "scalability"})
        THEN "complex"
        ELSE IF constraintCount > 1
                \/ someIncluded(problemLower, {"implement", "design", "optimize",
                                               "refactor", "connect"})
        THEN "moderate"
        ELSE "simple"

determineAgentType(complexity, priority) == "facts-manager"

HowToSolveMaxResults == 10

RECURSIVE relevantFactsData(_)
relevantFactsData(facts) ==
    IF facts = <<>> THEN <<>>
    ELSE LET fact == Head(facts)
         IN  << [title |-> fact.title, category |-> fact.category,
                 relevance_score |-> fact.relevanceScore, summary |-> fact.summary,
                 path |-> fact.path] >> \o relevantFactsData(Tail(facts))

\* HowToSolveTool.execute: thrown, or the envelope returned
HowToSolveExecute(st, env, args, date) ==
    LET parsed == HowToSolveInputSchema(args)
        input == parsed.value
        envelope(projectContext, relevantFacts, problemComplexity, recommendedAgentType) ==
            IF projectContext.thrown
            THEN failureEnvelope("Failed to analyze problem: " \o projectContext.value, date)
            ELSE [success |-> TRUE,
                  message |-> "Found " \o ToString(Len(relevantFacts))
                                \o " relevant insights for problem analysis",
                  data |-> [agent_type |-> recommendedAgentType,
                            agent_prompt |-> "agents/" \o recommendedAgentType \o ".md",
                            context_data |->
                              [original_problem |-> input.problem,
                               problem_context |-> IF Truthy(input.context)
                                                   THEN input.context ELSE "",
                               constraints |-> arrayOr(input.constraints, <<>>),
                               priority |-> input.priority,
                               project_context |->
                                 [current_path |-> projectContext.value.currentPath,
                                  has_local_docs |-> projectContext.value.hasLocalDocs,
                                  available_categories |-> projectContext.value.categories],
                               relevant_facts |-> relevantFactsData(relevantFacts),
                               analysis_metadata |->
                                 [complexity_level |-> problemComplexity,
                                  search_results_count |-> Len(relevantFacts),
                                  timestamp |-> toISOString(date)]]],
                  timestamp |-> toISOString(date)]
        analysed(projectContext, relevantFacts, problemComplexity) ==
            envelope(projectContext, relevantFacts, problemComplexity,
                     determineAgentType(problemComplexity, input.priority))
    IN  IF parsed.thrown THEN parsed
        ELSE Ok(analysed(getProjectContext(st, env, date),
                         searchFacts(st, env, input.problem,
                             [maxResults |-> HowToSolveMaxResults,
                              categories |-> <<"technical", "process", "pattern">>,
                              minRelevance |-> Score(6, 10)]),
                         analyzeProblemComplexity(input.problem,
                                                  arrayOr(input.constraints, <<>>))))

extractTagsFromContent(task, solution) ==
    LET text == toLowerCase(task \o " " \o solution)
        inText(tag) == includes(text, tag)
        commonTags ==
            <<"typescript", "javascript", "react", "node", "api", "database", "testing",
              "deployment", "security", "performance", "ui", "backend", "frontend",
              "architecture", "pattern", "bug-fix", "feature", "refactor">>
    IN  SelectSeq(commonTags, inText)

\* RecordInsightTool.generateFilename; timestamp is an ISO time stamp
generateFilename(category, task, timestamp) ==
    LET dateStr == join(splitChar(splitChar(timestamp, "T")[1], "-"), "")
        cleaned == keepChars(toLowerCase(task), LowerChars \cup DigitChars \cup WhiteChars)
        longWord(word) == Len(word) > 3
        words == SelectSeq(splitChar(cleaned, " "), longWord)
        taskWords == join(SubSeq(words, 1, Min(Len(words), 3)), "_")
    IN  "INSIGHT_" \o dateStr \o "_" \o category \o "_" \o taskWords \o ".md"

\* RecordInsightTool.execute: thrown or the envelope in value, and the store
\* left in st.  The insight_id hash and the search_keywords of the envelope
\* are left out: they depend on the millisecond clock and on nothing else
\* of the store.
RecordInsightExecute(st, env, args, date) ==
    LET parsed == RecordInsightInputSchema(args)
        input == parsed.value
        outcome(projectContext, recorded, tags, suggestedFilename) ==
            IF projectContext.thrown
            THEN [thrown |-> FALSE, st |-> st,
                  value |-> failureEnvelope("Failed to record insight: "
                                              \o projectContext.value, date)]
            ELSE IF recorded.thrown
            THEN [thrown |-> FALSE, st |-> recorded.st,
                  value |-> failureEnvelope("Failed to record insight: "
                                              \o "Failed to record insight: "
                                              \o "Failed to write file", date)]
            ELSE [thrown |-> FALSE, st |-> recorded.st,
                  value |->
                    [success |-> TRUE,
                     message |-> "Successfully recorded " \o input.category \o " insight",
                     data |-> [category |-> input.category,
                               confidence |-> input.confidence,
                               suggested_filename |-> suggestedFilename,
                               tags |-> tags,
                               storage_location |-> "local_docs/" \o suggestedFilename],
                     timestamp |-> toISOString(date),
                     metadata |->
                       [project_context |->
                          [current_path |-> projectContext.value.currentPath,
                           total_facts |-> projectContext.value.factCount + 1],
                        categorization |->
                          [primary_category |-> input.category,
                           auto_tags |-> tags,
                           confidence_level |-> input.confidence]]]]
    IN  IF parsed.thrown THEN [thrown |-> TRUE, value |-> parsed.value, st |-> st]
        ELSE outcome(getProjectContext(st, env, date),
                     recordInsight(st, env,
                         [task |-> input.task, solution |-> input.solution,
                          reasoning |-> input.reasoning,
                          evidence |-> arrayOr(input.evidence, <<>>),
                          category |-> input.category,
                          confidence |-> input.confidence], date),
                     arrayOr(input.tags,
                             extractTagsFromContent(input.task, input.solution)),
                     generateFilename(input.category, input.task, toISOString(date)))

(***************************************************************************)
(* Tool layer: init_facts_system.  Of the files it writes only the         *)
(* commands template is ever parsed; the bodies of the other templates are *)
(* cut down to their first lines.                                          *)
(***************************************************************************)
\* InitFactsSystemInputSchema.parse: throws unless enable_auto_capture, when
\* given, is a boolean ("true" or "false" here); it defaults to true
InitFactsSystemInputSchema(args) ==
    IF args.enable_auto_capture \notin {UNDEFINED, "true", "false"}
    THEN Thrown("ZodError")
    ELSE Ok([args EXCEPT !.enable_auto_capture = IF @ = UNDEFINED THEN "true" ELSE @])

\* InitFactsSystemTool.generateKnowledgeContent
initialKnowledgeContent(date) ==
    concat(<< "---\n"
      , "auto_generated: true\n"
      , "last_updated: " \o toISOString(date) \o "\n"
      , "total_documents: 0\n"
      , "categories: [\"technical\", \"process\", \"decision\", \"pattern\"]\n"
      , "---\n"
      , "\n"
      , "# ?\n" >>)

generateUserCommandTemplate(date) ==
    concat(<< "---\n"
      , "# ?\n"
      , "# ?\n"
      , "# ? how_to_solve ?\n"
      , "---\n"
      , "\n"
      , "# ? (USER_COMMAND.md)\n"
      , "\n"
      , "> ? **?**: ? 'how_to_solve' ?\n"
      , "\n"
      , "## ?\n"
      , "\n"
      , "**@**: ? pnpm ? npm ? yarn\n"
      , "**&**: \n"
      , "**^**: " \o date \o "\n"
      , "\n"
      , "? 'pnpm'?\n"
      , "- ?: 'pnpm install'\n"
      , "- ?: 'pnpm add <package>'\n"
      , "- ?: 'pnpm run <script>'\n"
      , "\n"
      , "## ?\n"
      , "\n"
      , "**@**: ? ESLint ? Prettier ? lint ?\n"
      , "**&**: \n"
      , "**^**: " \o date \o "\n"
      , "\n"
      , "?\n"
      , "1. ? 'pnpm run lint' ?\n"
      , "2. ? 'pnpm run type-check' ?\n"
      , "3. ?\n"
      , "\n"
      , "## ?\n"
      , "\n"
      , "**@**: ?80%\n"
      , "**&**: \n"
      , "**^**: " \o date \o "\n"
      , "\n"
      , "?\n"
      , "1. ? 'pnpm test' ?\n"
      , "2. ?\n"
      , "3. ?\n"
      , "\n"
      , "---\n"
      , "\n"
      , "## ?\n"
      , "\n"
      , "?\n"
      , "\n"
      , "'''markdown\n"
      , "## ?\n"
      , "\n"
      , "**@**: ?\n"
      , "**&**: ? docs/ ?\n"
      , "**^**: YYYY-MM-DD\n"
      , "\n"
      , "?...\n"
      , "'''\n"
      , "\n"
      , "*?*" >>)

\* InitFactsSystemTool.getAgentTemplate('facts-manager.md')
agentTemplate == "# Facts Manager Agent\n\n?Agent? - ?\n"

generateClaudeMdContent(enableAutoCapture) ==
    concat(<< "\n# Project Facts Management Integration\n"
      , "\n"
      , "## Facts System Workflow\n"
      , (IF enableAutoCapture THEN "\n### ? ? (?)\n" ELSE "")
      , "\n"
      , "*Facts Management System v0.1.0 - ?*\n" >>)

mergeClaudeMdContent(existingContent, newContent) ==
    IF includes(existingContent, "Project Facts Management Integration") THEN existingContent
    ELSE existingContent \o "\n\n" \o newContent

generateInsightTemplate ==
    concat(<< "---\n"
      , "category: [technical|process|decision|pattern]\n"
      , "confidence: [high|medium|low]\n"
      , "created_date: YYYY-MM-DD\n"
      , "tags: [tag1, tag2, tag3]\n"
      , "related_files: [file1, file2]\n"
      , "---\n"
      , "\n"
      , "# [?] - ?\n" >>)

\* one file system call of execute on store st
initCall(call, st, env) ==
    CASE call.name = "createDirectory" -> createDirectory(st, env, call.path)
      [] call.name = "initializeLocalDocs" -> initializeLocalDocs(st, env)
      [] call.name = "writeFile" -> writeFile(st, env, call.path, call.content)
      [] call.name = "updateClaudeMd" ->
           IF exists(st, env, call.path)
           THEN IF readFile(st, env, call.path).thrown THEN Failed(st)
                ELSE writeFile(st, env, call.path,
                         mergeClaudeMdContent(readFile(st, env, call.path).value,
                                              call.content))
           ELSE writeFile(st, env, call.path, call.content)

\* the calls from the i-th on, in order, up to the first one that throws
RECURSIVE initCalls(_, _, _, _)
initCalls(calls, i, prev, env) ==
    IF i > Len(calls) \/ prev.thrown THEN prev
    ELSE initCalls(calls, i + 1, initCall(calls[i], prev.st, env), env)

\* InitFactsSystemTool.execute: the envelope in value, and the store left
InitFactsSystemExecute(st, env, args, date) ==
    LET parsed == InitFactsSystemInputSchema(args)
        input == parsed.value
        projectPath == IF Truthy(input.project_path) THEN input.project_path ELSE Cwd
        enableAutoCapture == input.enable_auto_capture = "true"
        localDocs == pathJoin(projectPath, "local_docs")
        agentsPath == pathJoin(projectPath, "agents")
        templatesPath == pathJoin(localDocs, "templates")
        calls ==
            << [name |-> "createDirectory", path |-> localDocs],
               [name |-> "initializeLocalDocs"],
               [name |-> "writeFile", path |-> pathJoin(localDocs, "KNOWLEDGE.md"),
                content |-> initialKnowledgeContent(date)],
               [name |-> "writeFile", path |-> pathJoin(localDocs, "USER_COMMAND.md"),
                content |-> generateUserCommandTemplate(date)],
               [name |-> "createDirectory", path |-> agentsPath],
               [name |-> "writeFile", path |-> pathJoin(agentsPath, "facts-manager.md"),
                content |-> agentTemplate],
               [name |-> "updateClaudeMd", path |-> pathJoin(projectPath, "CLAUDE.md"),
                content |-> generateClaudeMdContent(enableAutoCapture)],
               [name |-> "createDirectory", path |-> templatesPath],
               [name |-> "writeFile",
                path |-> pathJoin(templatesPath, "insight-template.md"),
                content |-> generateInsightTemplate] >>
        outcome(done) ==
            IF done.thrown
            THEN [thrown |-> FALSE, st |-> done.st,
                  value |-> failureEnvelope("Failed to initialize facts system", date)]
            ELSE [thrown |-> FALSE, st |-> done.st,
                  value |->
                    [success |-> TRUE,
                     message |-> "Facts system successfully initialized",
                     data |-> [project_path |-> projectPath,
                               local_docs_path |-> localDocs,
                               agents_installed |-> 1,
                               claude_md_updated |-> TRUE,
                               auto_capture_enabled |-> enableAutoCapture,
                               created_structure |->
                                 {".bkproj/facts/", ".bkproj/facts/KNOWLEDGE.md",
                                  ".bkproj/facts/solutions/", ".bkproj/facts/docs/",
                                  ".bkproj/facts/templates/", "USER_COMMAND.md",
                                  "agents/"}],
                     timestamp |-> toISOString(date)]]
    IN  IF parsed.thrown THEN [thrown |-> TRUE, value |-> parsed.value, st |-> st]
        ELSE outcome(initCalls(calls, 1, Done(st), env))

(***************************************************************************)
(* Inputs of the operations.                                               *)
(***************************************************************************)
\* the day the clock shows: new Date().toISOString().split('T')[0]
Today == "2026-11-04"

RecordArgs(task, solution, reasoning, evidence, category, confidence) ==
    [task |-> task, solution |-> solution, reasoning |-> reasoning,
     evidence |-> evidence, category |-> category, confidence |-> confidence,
     tags |-> <<>>, related_files |-> <<>>]

\* arguments of record_insight that pass the schema
ValidRecordArgs ==
    {RecordArgs("implement login", "use JWT", "stateless", <<>>, "technical", "high"),
     RecordArgs("technical debt", "refactor", "less coupling", << <<"PR 12">> >>,
                "technical", UNDEFINED),
     RecordArgs("pick a db", "use Redis", "fast", <<>>, "decision", "low"),
     \* the file name of the one before: "!" is not kept
     RecordArgs("pick a db!", "use Redis", "cheap", <<>>, "decision", "high")}

\* arguments of record_insight that the schema rejects
InvalidRecordArgs ==
    {RecordArgs("implement login", "use JWT", "stateless", <<>>, "bogus", "high"),
     RecordArgs(UNDEFINED, "use JWT", "stateless", <<>>, "technical", "high"),
     RecordArgs("implement login", "use JWT", "stateless", <<>>, "technical", "sure")}

\* the InsightRecord execute builds from parsed arguments
insightOf(args) ==
    [task |-> args.task, solution |-> args.solution, reasoning |-> args.reasoning,
     evidence |-> arrayOr(args.evidence, <<>>), category |-> args.category,
     confidence |-> IF args.confidence = UNDEFINED THEN "medium" ELSE args.confidence]

Insights == {insightOf(a) : a \in ValidRecordArgs}

Queries ==
    {"implement login", "technical debt", "pick a db", "technical", "Deploy",
     "technical Deploy", "", "pnpm", "always review"}

OptionsChoices ==
    {DefaultOptions,
     [maxResults |-> 1, categories |-> <<"technical">>, minRelevance |-> Score(4, 10)]}

SolveArgs(problem, priority) ==
    [problem |-> problem, context |-> UNDEFINED, constraints |-> <<>>,
     priority |-> priority]

ValidSolveArgs ==
    {SolveArgs("technical", UNDEFINED), SolveArgs("technical Deploy", "high"),
     SolveArgs("decision", "low"), SolveArgs("pnpm", UNDEFINED)}

InvalidSolveArgs == {SolveArgs(UNDEFINED, "high"), SolveArgs("technical", "urgent")}

InitArgs(projectPath, enableAutoCapture) ==
    [project_path |-> projectPath, enable_auto_capture |-> enableAutoCapture]

ValidInitArgs == {InitArgs(UNDEFINED, UNDEFINED), InitArgs("/other", "false")}

InvalidInitArgs == {InitArgs(UNDEFINED, "yes")}

\* files a user or the facts-manager agent puts into the store by hand:
\* excerpts under docs/ and the commands file
ExternalFiles ==
    {[path |-> pathJoin(docsPath, "notes.md"),
      content |-> "Deploy notes\nrun the deploy script\n"],
     [path |-> pathJoin(docsPath, "guide.md"),
      content |-> "---\ntitle: Deploy guide\nauthor: ops\n---\n\nsteps to deploy\n"],
     [path |-> pathJoin(docsPath, "tech.md"),
      content |-> "---\ntitle: technical\ncategory: technical\ntags: technical\n"
                    \o "created_date: 2026-01-01\n---\nbody"],
     [path |-> userCommandPath,
      content |-> "intro text\n\n## Deploy\n\n**Description**: must use tool X\n"
                    \o "**Last Updated**: 2026-01-01\n\n## technical\nalways review\n"]}

(***************************************************************************)
(* The state machine.  ret holds the outcome of the operation in progress  *)
(* until the caller has taken it; one operation runs at a time.            *)
(***************************************************************************)
Idle == [op |-> "idle", args |-> <<>>, env |-> <<>>, thrown |-> FALSE, value |-> <<>>]

store == Store(dirs, files)

\* the documents of the collection: the *.md files of solutions/ and docs/
isDocument(p) == dirname(p) \in {solutionsPath, docsPath} /\ endsWith(p, ".md")

documentsOf(st) == {p \in DOMAIN st.files : isDocument(p)}

\* the environments of an operation on store st: every listing order, no
\* failing call
WorkingEnvs(st) ==
    {WorkingEnv(so, do) : so \in Perms(entryNames(st, solutionsPath)),
                          do \in Perms(entryNames(st, docsPath))}

\* the same with one failing call of the file system
FaultyEnvs(st) ==
    LET scanned == documentsOf(st) \cup {userCommandPath}
        probed == {localDocsPath, solutionsPath, docsPath, userCommandPath}
    IN  UNION {
          {[e EXCEPT !.access = {p}] : p \in probed}
            \cup {[e EXCEPT !.read = {p}] : p \in scanned}
            \cup {[e EXCEPT !.readdir = {p}] : p \in {solutionsPath, docsPath}}
            \cup {[e EXCEPT !.write = {p}] : p \in documentsOf(st) \cup {knowledgePath}}
            \cup {[e EXCEPT !.mkdir = {p}] : p \in {solutionsPath}}
          : e \in WorkingEnvs(st)}

Envs(st, faulty) == IF faulty THEN FaultyEnvs(st) ELSE WorkingEnvs(st)

Init ==
    /\ dirs = dirsTo(Cwd)
    /\ files = NoFiles
    /\ ret = Idle

\* FactsManager.searchFacts
Search(queries, optionsChoices, faulty) ==
    /\ ret.op = "idle"
    /\ \E query \in queries, options \in optionsChoices, env \in Envs(store, faulty) :
          ret' = [op |-> "search", args |-> [query |-> query, options |-> options],
                  env |-> env, thrown |-> FALSE,
                  value |-> searchFacts(store, env, query, options)]
    /\ UNCHANGED <<dirs, files>>

\* FactsManager.getProjectContext
GetContext(faulty) ==
    /\ ret.op = "idle"
    /\ \E env \in Envs(store, faulty) :
          \E out \in {getProjectContext(store, env, Today)} :
              ret' = [op |-> "getContext", args |-> <<>>, env |-> env,
                      thrown |-> out.thrown, value |-> out.value]
    /\ UNCHANGED <<dirs, files>>

\* the store once the document of insight is in solutions/
withInsight(st, insight) ==
    Store(st.dirs \cup dirsTo(solutionsPath), (insightPath(insight) :> "") @@ st.files)

\* FactsManager.recordInsight
Record(insights, faulty) ==
    /\ ret.op = "idle"
    /\ \E insight \in insights :
          /\ Cardinality(documentsOf(withInsight(store, insight))) <= MaxDocs
          /\ \E env \in Envs(withInsight(store, insight), faulty) :
                \E out \in {recordInsight(store, env, insight, Today)} :
                    /\ dirs' = out.st.dirs
                    /\ files' = out.st.files
                    /\ ret' = [op |-> "record", args |-> [insight |-> insight],
                               env |-> env, thrown |-> out.thrown, value |-> <<>>]

\* FactsManager.initializeLocalDocs
Initialize(faulty) ==
    /\ ret.op = "idle"
    /\ \E env \in Envs(store, faulty) :
          \E out \in {initializeLocalDocs(store, env)} :
              /\ dirs' = out.st.dirs
              /\ files' = out.st.files
              /\ ret' = [op |-> "initialize", args |-> <<>>, env |-> env,
                         thrown |-> out.thrown, value |-> <<>>]

\* how_to_solve
HowToSolve(faulty) ==
    /\ ret.op = "idle"
    /\ \E args \in ValidSolveArgs \cup InvalidSolveArgs, env \in Envs(store, faulty) :
          \E out \in {HowToSolveExecute(store, env, args, Today)} :
              ret' = [op |-> "how_to_solve", args |-> args, env |-> env,
                      thrown |-> out.thrown, value |-> out.value]
    /\ UNCHANGED <<dirs, files>>

\* record_insight
RecordInsight(faulty) ==
    /\ ret.op = "idle"
    /\ \E args \in ValidRecordArgs \cup InvalidRecordArgs :
          /\ args \in ValidRecordArgs =>
                Cardinality(documentsOf(withInsight(store, insightOf(args)))) <= MaxDocs
          /\ \E env \in Envs(IF args \in ValidRecordArgs
                             THEN withInsight(store, insightOf(args)) ELSE store, faulty) :
                \E out \in {RecordInsightExecute(store, env, args, Today)} :
                    /\ dirs' = out.st.dirs
                    /\ files' = out.st.files
                    /\ ret' = [op |-> "record_insight", args |-> args, env |-> env,
                               thrown |-> out.thrown, value |-> out.value]

\* init_facts_system
InitFactsSystem(faulty) ==
    /\ ret.op = "idle"
    /\ \E args \in ValidInitArgs \cup InvalidInitArgs, env \in Envs(store, faulty) :
          \E out \in {InitFactsSystemExecute(store, env, args, Today)} :
              /\ dirs' = out.st.dirs
              /\ files' = out.st.files
              /\ ret' = [op |-> "init_facts_system", args |-> args, env |-> env,
                         thrown |-> out.thrown, value |-> out.value]

\* a file written into the store from outside the server
ExternalWrite(externalFiles) ==
    /\ ret.op = "idle"
    /\ \E f \in externalFiles :
          /\ f.path \notin DOMAIN files
          /\ Cardinality(documentsOf(store) \cup ({f.path} \cap {p \in {f.path} : isDocument(p)}))
                <= MaxDocs
          /\ dirs' = dirs \cup dirsTo(dirname(f.path))
          /\ files' = (f.path :> f.content) @@ files
    /\ UNCHANGED ret

\* the caller takes the outcome
Respond ==
    /\ ret.op # "idle"
    /\ ret' = Idle
    /\ UNCHANGED <<dirs, files>>

\* the facade over working storage
Next ==
    \/ Search(Queries, OptionsChoices, FALSE)
    \/ GetContext(FALSE)
    \/ Record(Insights, FALSE)
    \/ Initialize(FALSE)
    \/ ExternalWrite(ExternalFiles)
    \/ Respond

Spec == Init /\ [][Next]_vars

\* the three tools, and the facade's search, over working storage
NextTools ==
    \/ HowToSolve(FALSE)
    \/ RecordInsight(FALSE)
    \/ InitFactsSystem(FALSE)
    \/ Search({"pnpm", "technical debt"}, {DefaultOptions}, FALSE)
    \/ Respond

SpecTools == Init /\ [][NextTools]_vars

\* the facade over storage in which one call of an operation can fail
NextFaults ==
    \/ Search({"technical", "Deploy"}, {DefaultOptions}, TRUE)
    \/ GetContext(TRUE)
    \/ Record({i \in Insights : i.category = "technical"}, TRUE)
    \/ Initialize(TRUE)
    \/ ExternalWrite({f \in ExternalFiles :
                         f.path \in {pathJoin(docsPath, "tech.md"), userCommandPath}})
    \/ Respond

SpecFaults == Init /\ [][NextFaults]_vars

(***************************************************************************)
(* The relevance scorer on its own: the inputs are drawn at the start and  *)
(* the scorer is applied to them.                                          *)
(***************************************************************************)
RelevanceWords == {"", "technical", "Tech", "deploy"}

\* the queries of at most n words
RECURSIVE QueriesOfLen(_)
QueriesOfLen(n) ==
    IF n = 1 THEN RelevanceWords
    ELSE LET shorter == QueriesOfLen(n - 1)
         IN  shorter \cup {q \o " " \o w : q \in shorter, w \in RelevanceWords}

\* a document text: a header block of the given lines, or none, and a body
documentText(block, lines, body) ==
    IF block THEN "---\n" \o join(lines, "\n") \o "\n---\n" \o body ELSE body

RelevanceDocuments ==
    {documentText(block, title \o category \o tags, body) :
        block \in BOOLEAN,
        title \in {<<>>, <<"title: Technical deploy guide">>, <<"title:">>,
                   <<"title: Technical Deploy">>},
        category \in {<<>>, <<"category: technical">>},
        tags \in {<<>>, <<"tags: technical">>, <<"tags: [technical]">>},
        body \in {"", "body", "technical deploy\n"}}

InitRelevance ==
    /\ dirs = dirsTo(Cwd)
    /\ files = NoFiles
    /\ \E query \in QueriesOfLen(MaxWords), content \in RelevanceDocuments :
          ret = [op |-> "input", args |-> [query |-> query, content |-> content],
                 env |-> <<>>, thrown |-> FALSE, value |-> <<>>]

\* FactsManager.calculateRelevance on the metadata parsed from the content
ScoreDocument ==
    /\ ret.op = "input"
    /\ ret' = [ret EXCEPT !.op = "score",
                          !.value = calculateRelevance(ret.args.query, ret.args.content,
                                        parseInsightMetadata(ret.args.content))]
    /\ UNCHANGED <<dirs, files>>

NextRelevance == ScoreDocument

SpecRelevance == InitRelevance /\ [][NextRelevance]_vars

(***************************************************************************)
(* Two record operations on one collection with their storage steps        *)
(* interleaved.  recordInsight is an async function without any lock: the  *)
(* other operation can run at each await.  ret.value holds, per operation, *)
(* the await it has reached (pc) and the locals of updateKnowledge it has  *)
(* computed so far; lastIndex is the operation that wrote KNOWLEDGE.md     *)
(* last.  The storage is working.                                          *)
(***************************************************************************)
InitInterleaved ==
    /\ dirs = dirsTo(Cwd)
    /\ files = NoFiles
    /\ \E a \in Insights, b \in Insights :
          /\ insightPath(a) # insightPath(b)
          /\ ret = [op |-> "records", args |-> [insights |-> <<a, b>>], env |-> <<>>,
                    thrown |-> FALSE,
                    value |-> [pc |-> <<"writeFile", "writeFile">>,
                               context |-> <<UNDEFINED, UNDEFINED>>,
                               solutionFiles |-> << <<>>, <<>> >>,
                               docFiles |-> << <<>>, <<>> >>,
                               lastIndex |-> 0]]

\* recordInsight: await this.fileManager.writeFile(filePath, content)
RecordWriteFile(p) ==
    /\ ret.op = "records"
    /\ ret.value.pc[p] = "writeFile"
    /\ \E env \in WorkingEnvs(store) :
          \E out \in {writeFile(store, env, insightPath(ret.args.insights[p]),
                                formatInsightContent(ret.args.insights[p], Today))} :
              /\ dirs' = out.st.dirs
              /\ files' = out.st.files
              /\ ret' = [ret EXCEPT !.value.pc[p] =
                            IF out.thrown THEN "done" ELSE "getProjectContext"]

\* updateKnowledge: const context = await this.getProjectContext()
RecordGetProjectContext(p) ==
    /\ ret.op = "records"
    /\ ret.value.pc[p] = "getProjectContext"
    /\ \E env \in WorkingEnvs(store) :
          \E context \in {getProjectContext(store, env, Today)} :
              ret' = [ret EXCEPT !.value.pc[p] =
                                    IF context.thrown THEN "done" ELSE "getSolutionFiles",
                                 !.value.context[p] = context.value]
    /\ UNCHANGED <<dirs, files>>

\* updateKnowledge: const solutionFiles = await this.getSolutionFiles()
RecordGetSolutionFiles(p) ==
    /\ ret.op = "records"
    /\ ret.value.pc[p] = "getSolutionFiles"
    /\ \E env \in WorkingEnvs(store) :
          ret' = [ret EXCEPT !.value.pc[p] = "getDocFiles",
                             !.value.solutionFiles[p] = getSolutionFiles(store, env, Today)]
    /\ UNCHANGED <<dirs, files>>

\* updateKnowledge: const docFiles = await this.getDocFiles()
RecordGetDocFiles(p) ==
    /\ ret.op = "records"
    /\ ret.value.pc[p] = "getDocFiles"
    /\ \E env \in WorkingEnvs(store) :
          ret' = [ret EXCEPT !.value.pc[p] = "writeKnowledge",
                             !.value.docFiles[p] = getDocFiles(store, env, Today)]
    /\ UNCHANGED <<dirs, files>>

\* updateKnowledge: generateKnowledgeContent of the locals, then
\* await this.fileManager.writeFile(knowledgePath, knowledgeContent); the
\* operation returns
RecordWriteKnowledge(p) ==
    /\ ret.op = "records"
    /\ ret.value.pc[p] = "writeKnowledge"
    /\ \E env \in WorkingEnvs(store) :
          \E out \in {writeFile(store, env, knowledgePath,
                          generateKnowledgeContent(ret.value.solutionFiles[p],
                                                   ret.value.docFiles[p],
                                                   ret.value.context[p], Today))} :
              /\ dirs' = out.st.dirs
              /\ files' = out.st.files
              /\ ret' = [ret EXCEPT !.value.pc[p] = "done",
                                    !.value.lastIndex = IF out.thrown THEN @ ELSE p]

NextInterleaved ==
    \/ \E p \in {1, 2} : RecordWriteFile(p)
    \/ \E p \in {1, 2} : RecordGetProjectContext(p)
    \/ \E p \in {1, 2} : RecordGetSolutionFiles(p)
    \/ \E p \in {1, 2} : RecordGetDocFiles(p)
    \/ \E p \in {1, 2} : RecordWriteKnowledge(p)

SpecInterleaved == InitInterleaved /\ [][NextInterleaved]_vars

(***************************************************************************)
(* The facade with documents of several dates in the store: getContext     *)
(* and record over working storage, and documents put into docs/ by hand.  *)
(***************************************************************************)
\* documents a user puts into docs/: with a date before 1970, with a date of
\* this year, with a header without a date, and without a header
DatedFiles ==
    {[path |-> pathJoin(docsPath, "moon.md"),
      content |-> "---\ntitle: Moon landing\ncreated_date: 1969-07-20\n---\nbody"],
     [path |-> pathJoin(docsPath, "tech.md"),
      content |-> "---\ntitle: technical\ncreated_date: 2026-01-01\n---\nbody"],
     [path |-> pathJoin(docsPath, "guide.md"),
      content |-> "---\ntitle: Deploy guide\n---\n\nsteps to deploy\n"],
     [path |-> pathJoin(docsPath, "notes.md"),
      content |-> "Deploy notes\nrun the deploy script\n"]}

NextActivity ==
    \/ GetContext(FALSE)
    \/ Record(Insights, FALSE)
    \/ ExternalWrite(DatedFiles)
    \/ Respond

SpecActivity == Init /\ [][NextActivity]_vars

(***************************************************************************)
(* The parser of the commands file on its own: the text of the file is     *)
(* drawn at the start and parsed once.                                     *)
(***************************************************************************)
\* sections: with a labelled description, with a plain description, without
\* a name, without a description
CommandSections ==
    {"## Deploy\n\n**Description**: must use tool X\n**Last Updated**: 2026-01-01\n\n",
     "## technical\nalways review\n",
     "## \nno name\n",
     "## Empty\n\n"}

\* the texts made of at most n sections
RECURSIVE SectionsOfLen(_)
SectionsOfLen(n) ==
    IF n = 0 THEN {""}
    ELSE LET shorter == SectionsOfLen(n - 1)
         IN  shorter \cup {t \o s : t \in shorter, s \in CommandSections}

\* the commands files: a text before the first section, or none, then the
\* sections; and the template of init_facts_system
CommandFiles ==
    {preamble \o sections :
        preamble \in {"", "intro text\n\n", "# Commands\n\n> rules for the agent\n\n",
                      "---\n# ?\n---\n\n# ? (USER_COMMAND.md)\n\n"},
        sections \in SectionsOfLen(MaxSections)}
      \cup {generateUserCommandTemplate(Today)}

InitCommands ==
    /\ dirs = dirsTo(Cwd)
    /\ files = NoFiles
    /\ \E content \in CommandFiles :
          ret = [op |-> "input", args |-> [content |-> content],
                 env |-> <<>>, thrown |-> FALSE, value |-> <<>>]

\* FactsManager.parseUserCommands
ParseCommands ==
    /\ ret.op = "input"
    /\ ret' = [ret EXCEPT !.op = "parsed", !.value = parseUserCommands(ret.args.content)]
    /\ UNCHANGED <<dirs, files>>

NextCommands == ParseCommands

SpecCommands == InitCommands /\ [][NextCommands]_vars

(***************************************************************************)
(* Properties of the facade over working storage (Spec).                   *)
(***************************************************************************)

\* C1: on working storage, once record(i) has returned successfully, a search
\* for the task text of i with the default options returns a result for the
\* document of i.
C1_RecordedInsightIsFound ==
    (ret.op = "record" /\ ~ret.thrown) =>
        \A env \in WorkingEnvs(store) :
            LET results == searchFacts(store, env, ret.args.insight.task, DefaultOptions)
            IN  \E k \in DOMAIN results : results[k].path = insightPath(ret.args.insight)

\* C2: in every result sequence of search no document result comes before a
\* command result, and a command of the commands file whose lower-cased name
\* equals a whitespace-separated token of the lower-cased query is in the
\* results, before every document result.
C2_CommandsFirst ==
    ret.op = "search" =>
        LET results == ret.value
            isCommand(k) == results[k].path = userCommandPath
            tokens == Range(splitWs(toLowerCase(ret.args.query)))
            commands == IF userCommandPath \in DOMAIN files
                        THEN parseUserCommands(files[userCommandPath]) ELSE <<>>
        IN  /\ \A i, j \in DOMAIN results : (isCommand(j) /\ ~isCommand(i)) => j < i
            /\ \A c \in DOMAIN commands :
                  toLowerCase(commands[c].command) \in tokens =>
                      \E k \in DOMAIN results :
                          /\ results[k] = commandFact(commands[c])
                          /\ \A i \in DOMAIN results : ~isCommand(i) => k < i

\* a search that returned the command named by the query and then a document
C2_Witness ==
    /\ ret.op = "search"
    /\ \E k, i \in DOMAIN ret.value :
          /\ ret.value[k].path = userCommandPath
          /\ ret.value[k].title = "?: " \o ret.args.query
          /\ isDocument(ret.value[i].path)
          /\ k < i

\* C4: a document with no recognised header field (no header block, or a
\* header block without category, confidence, created_date and tags) is
\* treated as a technical document by search and by getContext, and neither
\* operation fails on it.
C4_BareDocumentIsTechnical ==
    LET recognised == {"category", "confidence", "created_date", "tags"}
        bare(p) == \/ frontMatterEnd(files[p]) = 0
                   \/ DOMAIN parseInsightMetadata(files[p]) \cap recognised = {}
        bareDocuments == {p \in documentsOf(store) : bare(p)}
        asTechnical(p) == ("category" :> "technical") @@ parseInsightMetadata(files[p])
        documentResults == {k \in DOMAIN ret.value : isDocument(ret.value[k].path)}
    IN  /\ ret.op \in {"search", "getContext"} => ~ret.thrown
        /\ (ret.op = "getContext" /\ bareDocuments # {}) =>
              /\ "technical" \in Range(ret.value.categories)
              /\ Range(ret.value.categories) \subseteq Categories
        /\ ret.op = "search" =>
              \A p \in bareDocuments :
                  ( /\ "technical" \in Range(ret.args.options.categories)
                    /\ ScoreGeq(calculateRelevance(ret.args.query, files[p], asTechnical(p)),
                                ret.args.options.minRelevance)
                    /\ Cardinality(documentResults) < ret.args.options.maxResults )
                  => \E k \in documentResults :
                        ret.value[k].path = p /\ ret.value[k].category = "technical"

\* C13: getContext on a store whose root directory does not exist returns
\* hasLocalDocs false, factCount 0 and no category, and creates no directory
\* and no file.
C13_ContextOfMissingRoot ==
    [][(ret.op = "idle" /\ ret'.op = "getContext" /\ localDocsPath \notin dirs)
       => /\ ~ret'.thrown
          /\ ret'.value.hasLocalDocs = FALSE
          /\ ret'.value.factCount = 0
          /\ ret'.value.categories = <<>>
          /\ dirs' = dirs
          /\ files' = files]_vars

\* a getContext that returned on a store without the root directory
C13_Witness ==
    /\ ret.op = "getContext"
    /\ localDocsPath \notin dirs
    /\ ~ret.thrown
    /\ ret.value.hasLocalDocs = FALSE

\* C14: initialize is idempotent: on the store a successful initialize has
\* left, a second initialize does not fail and leaves the same directories,
\* the root, solutions/ and docs/ among them, and the same files with the
\* same text.
C14_InitializeIsIdempotent ==
    (ret.op = "initialize" /\ ~ret.thrown) =>
        /\ {localDocsPath, solutionsPath, docsPath} \subseteq dirs
        /\ \A env \in WorkingEnvs(store) :
              LET again == initializeLocalDocs(store, env)
              IN  ~again.thrown /\ again.st = store

\* an initialize that returned on a store that holds documents
C14_Witness ==
    /\ ret.op = "initialize"
    /\ ~ret.thrown
    /\ {localDocsPath, solutionsPath, docsPath} \subseteq dirs
    /\ documentsOf(store) # {}

\* C15: a record whose file name is the one of a document already in
\* solutions/ (an insight with the same first 30 kept characters of task and
\* of solution) does not fail, replaces the text of that document by its own
\* and leaves the set of documents, and so their number, as it was.
C15_SameNameOverwrites ==
    [][(ret.op = "idle" /\ ret'.op = "record"
          /\ insightPath(ret'.args.insight) \in DOMAIN files)
       => /\ ~ret'.thrown
          /\ documentsOf(Store(dirs', files')) = documentsOf(store)
          /\ files'[insightPath(ret'.args.insight)]
               = formatInsightContent(ret'.args.insight, Today)]_vars

\* the document of one of two insights of the same file name and different
\* text, the only document of solutions/
C15_Witness ==
    /\ ret.op = "record"
    /\ ~ret.thrown
    /\ \E other \in Insights :
          /\ other # ret.args.insight
          /\ insightPath(other) = insightPath(ret.args.insight)
          /\ formatInsightContent(other, Today)
               # formatInsightContent(ret.args.insight, Today)
    /\ files[insightPath(ret.args.insight)]
         = formatInsightContent(ret.args.insight, Today)
    /\ {p \in documentsOf(store) : dirname(p) = solutionsPath}
         = {insightPath(ret.args.insight)}

\* C16: the command results of a search are the commands parsed from the
\* commands file of which the lower-cased name or the lower-cased description
\* contains some white-space token of the lower-cased query: one result per
\* such command, in the order of the file, each with the score 1.0, and none
\* for the other commands.
C16_CommandResultsAreTheMatches ==
    ret.op = "search" =>
        LET commands == IF userCommandPath \in DOMAIN files
                        THEN parseUserCommands(files[userCommandPath]) ELSE <<>>
            tokens == splitWs(toLowerCase(ret.args.query))
            matches(c) == \E i \in DOMAIN tokens :
                              \/ includes(toLowerCase(c.command), tokens[i])
                              \/ includes(toLowerCase(c.description), tokens[i])
            expected == SelectSeq(commands, matches)
            ofCommand(r) == r.path = userCommandPath
            results == SelectSeq(ret.value, ofCommand)
        IN  /\ Len(results) = Len(expected)
            /\ \A k \in DOMAIN results :
                  /\ results[k].title = "?: " \o expected[k].command
                  /\ results[k].summary = expected[k].description
                  /\ results[k].relevanceScore.num = results[k].relevanceScore.den

\* a search that returned one of two commands, matched by its description
\* and not by its name
C16_Witness ==
    /\ ret.op = "search"
    /\ userCommandPath \in DOMAIN files
    /\ Len(parseUserCommands(files[userCommandPath])) = 2
    /\ Len(ret.value) > 0
    /\ ret.value[1].path = userCommandPath
    /\ \A k \in DOMAIN ret.value : k > 1 => ret.value[k].path # userCommandPath
    /\ \A i \in DOMAIN splitWs(toLowerCase(ret.args.query)) :
          ~includes(toLowerCase(ret.value[1].title),
                    splitWs(toLowerCase(ret.args.query))[i])

\* the score of the document at path p of the store for query
C17_ScoreOf(p, query) ==
    calculateRelevance(query, files[p], parseInsightMetadata(files[p]))

\* the documents of the store that pass the filters of options for query
C17_Passing(query, options) ==
    {p \in documentsOf(store) :
        /\ Prop(parseInsightMetadata(files[p]), "category") \in Range(options.categories)
        /\ ScoreGeq(C17_ScoreOf(p, query), options.minRelevance)}

\* C17: the document results of a search are documents whose category is in
\* options.categories and whose score is at least minRelevance, each once and
\* with its score, in the order of non-increasing score, and they are the
\* first maxResults of them: no passing document is left out while there is
\* room or while a passing document of a strictly lower score is returned.
C17_ResultsAreTheBestPassing ==
    ret.op = "search" =>
        LET query == ret.args.query
            options == ret.args.options
            ofDocument(r) == r.path # userCommandPath
            results == SelectSeq(ret.value, ofDocument)
            returned == {results[k].path : k \in DOMAIN results}
            passing == C17_Passing(query, options)
        IN  /\ returned \subseteq passing
            /\ Cardinality(returned) = Len(results)
            /\ Len(results) = Min(Cardinality(passing), options.maxResults)
            /\ \A k \in DOMAIN results :
                  /\ results[k].relevanceScore = C17_ScoreOf(results[k].path, query)
                  /\ \A l \in DOMAIN results :
                        k < l => ScoreGeq(results[k].relevanceScore,
                                          results[l].relevanceScore)
                  /\ \A p \in passing \ returned :
                        ScoreGeq(results[k].relevanceScore, C17_ScoreOf(p, query))

\* a search cut to one result that returned the better of two passing
\* documents, the one the scan met last
C17_Witness ==
    /\ ret.op = "search"
    /\ ret.args.options.maxResults = 1
    /\ Cardinality(C17_Passing(ret.args.query, ret.args.options)) = 2
    /\ \E k \in DOMAIN ret.value :
          /\ dirname(ret.value[k].path) = docsPath
          /\ \E p \in C17_Passing(ret.args.query, ret.args.options) :
                /\ dirname(p) = solutionsPath
                /\ ~ScoreGeq(C17_ScoreOf(p, ret.args.query), ret.value[k].relevanceScore)

\* the *.md files of directory d
C20_MdFiles(d) == {p \in DOMAIN files : dirname(p) = d /\ endsWith(p, ".md")}

\* the number of lines of the index that list a file of the given name
C20_Listed(name) ==
    LET lists(line) == startsWith(line, "- '" \o name \o "' - ")
    IN  Len(SelectSeq(splitChar(files[knowledgePath], "\n"), lists))

\* C20: after a record over working storage the index KNOWLEDGE.md reports
\* total_solutions as the number of *.md files of solutions/, total_docs as
\* the number of *.md files of docs/ and total_documents as their sum, and it
\* lists each of these files exactly once and no other file.
C20_IndexCountsTheDocuments ==
    (ret.op = "record" /\ ~ret.thrown) =>
        /\ knowledgePath \in DOMAIN files
        /\ LET header == parseInsightMetadata(files[knowledgePath])
               solutions == C20_MdFiles(solutionsPath)
               docs == C20_MdFiles(docsPath)
           IN  /\ Prop(header, "total_solutions") = ToString(Cardinality(solutions))
               /\ Prop(header, "total_docs") = ToString(Cardinality(docs))
               /\ Prop(header, "total_documents")
                    = ToString(Cardinality(solutions) + Cardinality(docs))
               /\ \A name \in entryNames(store, solutionsPath) \cup entryNames(store, docsPath)
                                \cup {"KNOWLEDGE.md", "USER_COMMAND.md"} :
                      C20_Listed(name)
                        = Cardinality({d \in {solutionsPath, docsPath} :
                                          pathJoin(d, name) \in solutions \cup docs})

\* a record that leaves an index of two documents, one of solutions/ and one
\* of docs/, beside the commands file
C20_Witness ==
    /\ ret.op = "record"
    /\ ~ret.thrown
    /\ Cardinality(C20_MdFiles(solutionsPath)) = 1
    /\ Cardinality(C20_MdFiles(docsPath)) = 1
    /\ userCommandPath \in DOMAIN files
    /\ Prop(parseInsightMetadata(files[knowledgePath]), "total_documents") = "2"

\* the score search gives, for query, to the document record has written
C24_ScoreOfRecorded(query) ==
    calculateRelevance(query, files[insightPath(ret.args.insight)],
                       parseInsightMetadata(files[insightPath(ret.args.insight)]))

\* C24: the document record writes has a header without a title field, so
\* for every query its title signal is 0 and its relevance score is at most
\* 0.6.
C24_RecordedScoresAtMostSixTenths ==
    (ret.op = "record" /\ ~ret.thrown) =>
        /\ "title" \notin DOMAIN parseInsightMetadata(files[insightPath(ret.args.insight)])
        /\ \A query \in Queries : ScoreGeq(Score(6, 10), C24_ScoreOfRecorded(query))

\* a recorded document that scores exactly 0.6 for a query, and a query that
\* is the task of the recorded insight
C24_Witness ==
    /\ ret.op = "record"
    /\ ~ret.thrown
    /\ ret.args.insight.task \in Queries
    /\ \E query \in Queries : ScoreGeq(C24_ScoreOfRecorded(query), Score(6, 10))

\* some non-empty token of the query occurs in the name or the description
\* of the command shown by the result
C25_SharesWord(result, query) ==
    LET name == toLowerCase(SubSeq(result.title, 4, Len(result.title)))
        description == toLowerCase(result.summary)
        queryWords == splitWs(toLowerCase(query))
    IN  \E i \in DOMAIN queryWords :
            /\ queryWords[i] # ""
            /\ (includes(name, queryWords[i]) \/ includes(description, queryWords[i]))

\* C25: search returns a command only if some non-empty token of the query
\* occurs in the lower-cased name or description of the command: the empty
\* query returns no command.
C25_CommandsShareAWord ==
    (ret.op = "search" /\ ~ret.thrown) =>
        \A i \in DOMAIN ret.value :
            ret.value[i].category = "command" => C25_SharesWord(ret.value[i], ret.args.query)

(***************************************************************************)
(* Properties of the relevance scorer (SpecRelevance).                     *)
(***************************************************************************)

\* C3: the relevance score of any query and document is in [0, 1].
C3_ScoreInUnitInterval ==
    ret.op = "score" =>
        /\ ret.value.den > 0
        /\ 0 <= ret.value.num
        /\ ret.value.num <= ret.value.den

\* a score of exactly 1: title, words, category and tags all match
C3_Witness ==
    /\ ret.op = "score"
    /\ ret.value.num = ret.value.den
    /\ Prop(parseInsightMetadata(ret.args.content), "title") # UNDEFINED

\* C12: a document whose header title equals the query, both in lower case,
\* scores at least 0.4, whatever its body, category and tags.
C12_TitleEqualToQueryScores ==
    LET metadata == parseInsightMetadata(ret.args.content)
    IN  ( /\ ret.op = "score"
          /\ frontMatterEnd(ret.args.content) # 0
          /\ "title" \in DOMAIN metadata
          /\ toLowerCase(metadata.title) = toLowerCase(ret.args.query) )
        => ScoreGeq(ret.value, Score(4, 10))

\* the score of a document with a title of two words that equals the query,
\* and with no category and no tags
C12_Witness ==
    LET metadata == parseInsightMetadata(ret.args.content)
    IN  /\ ret.op = "score"
        /\ frontMatterEnd(ret.args.content) # 0
        /\ DOMAIN metadata = {"title"}
        /\ Len(splitWs(metadata.title)) = 2
        /\ toLowerCase(metadata.title) = toLowerCase(ret.args.query)
        /\ ScoreGeq(ret.value, Score(4, 10))

\* the body of a document: the text after the header block and the line end
\* that closes it, all of the text when there is no header block
C18_BodyOf(content) ==
    LET e == frontMatterEnd(content)
        rest == SubSeq(content, e + 4, Len(content))
    IN  IF e = 0 THEN content
        ELSE IF startsWith(rest, "\n") THEN SubSeq(rest, 2, Len(rest)) ELSE rest

\* C18: the word signal of the score is computed from the tokens of the body
\* of the document only, so text of the header block makes no query token
\* match: the score of a document is never above the score the scorer gives
\* to its body with the metadata of its header.
C18_WordsFromBodyOnly ==
    ret.op = "score" =>
        ScoreGeq(calculateRelevance(ret.args.query, C18_BodyOf(ret.args.content),
                                    parseInsightMetadata(ret.args.content)),
                 ret.value)

\* the header lists exactly one tag in brackets, as a recorded document does
C19_ListsOneTag(metadata) ==
    /\ "tags" \in DOMAIN metadata
    /\ Len(metadata.tags) > 2
    /\ startsWith(metadata.tags, "[")
    /\ SubSeq(metadata.tags, Len(metadata.tags), Len(metadata.tags)) = "]"
    /\ ~includes(metadata.tags, ",")

\* the tag a header of one bracketed tag lists
C19_TheTag(metadata) == SubSeq(metadata.tags, 2, Len(metadata.tags) - 1)

\* C19: the tag signal takes the tags of the header one by one: a document
\* whose header lists the one tag c, tags: [c], scores at least what the
\* scorer gives when its tags are the tag c itself, so it receives the full
\* 0.1 for every query that contains c.
C19_ListedTagCounts ==
    (ret.op = "score" /\ C19_ListsOneTag(parseInsightMetadata(ret.args.content))) =>
        LET metadata == parseInsightMetadata(ret.args.content)
        IN  ScoreGeq(ret.value,
                     calculateRelevance(ret.args.query, ret.args.content,
                                        [metadata EXCEPT !.tags = C19_TheTag(metadata)]))

(***************************************************************************)
(* Properties of the tools (SpecTools).                                    *)
(***************************************************************************)

\* C5: execute of how_to_solve, record_insight and init_facts_system never
\* throws, whatever the arguments: it returns an envelope with success,
\* message, data and timestamp.
C5_ToolsNeverThrow ==
    ret.op \in {"how_to_solve", "record_insight", "init_facts_system"} =>
        /\ ~ret.thrown
        /\ {"success", "message", "data", "timestamp"} \subseteq DOMAIN ret.value

\* C6: once init_facts_system has succeeded, USER_COMMAND.md and KNOWLEDGE.md
\* are in .bkproj/facts, and a search for "pnpm", which a command of the
\* template matches, returns a command result.
C6_InitCreatesCommandsAndIndex ==
    (ret.op = "init_facts_system" /\ ~ret.thrown /\ ret.value.success) =>
        /\ userCommandPath \in DOMAIN files
        /\ knowledgePath \in DOMAIN files
        /\ \A env \in WorkingEnvs(store) :
              LET results == searchFacts(store, env, "pnpm", DefaultOptions)
              IN  \E k \in DOMAIN results : results[k].category = "command"

\* C7: the file name and location that a successful record_insight reports
\* name the document it wrote, a file of .bkproj/facts/solutions.
C7_ReportedLocationIsWritten ==
    (ret.op = "record_insight" /\ ~ret.thrown /\ ret.value.success) =>
        LET name == ret.value.data.suggested_filename
            location == ret.value.data.storage_location
            written == insightPath(insightOf(ret.args))
        IN  /\ pathJoin(solutionsPath, name) = written
            /\ endsWith(written, location) \/ endsWith(location, "solutions/" \o name)

\* C26: the total_facts that a successful record_insight reports is the
\* number of documents of the collection after the write, also when the
\* file name of the new insight is present already and the write overwrites
\* that file.
C26_TotalFactsCountsDocuments ==
    (ret.op = "record_insight" /\ ~ret.thrown /\ ret.value.success) =>
        ret.value.metadata.project_context.total_facts = Cardinality(documentsOf(store))

\* the scored documents among the relevant_facts of the how_to_solve result
C27_ScoredFacts ==
    LET scoredDocument(fact) == fact.category # "command"
    IN  SelectSeq(ret.value.data.context_data.relevant_facts, scoredDocument)

\* the documents of the store whose header has the category decision
C27_Decisions ==
    {p \in documentsOf(store) :
        Prop(parseInsightMetadata(files[p]), "category") = "decision"}

\* C27: how_to_solve returns no scored document of category decision and no
\* scored document with relevance below 0.6: a document recorded with the
\* category decision is not among its relevant_facts, whatever the problem.
C27_NoDecisionNoLowScore ==
    (ret.op = "how_to_solve" /\ ~ret.thrown /\ ret.value.success) =>
        \A i \in DOMAIN C27_ScoredFacts :
            /\ C27_ScoredFacts[i].category # "decision"
            /\ C27_ScoredFacts[i].path \notin C27_Decisions
            /\ ScoreGeq(C27_ScoredFacts[i].relevance_score, Score(6, 10))

\* how_to_solve for the problem "decision" on a store that holds a recorded
\* decision, which scores 0.6 for that problem
C27_Witness ==
    /\ ret.op = "how_to_solve"
    /\ ~ret.thrown
    /\ ret.value.success
    /\ ret.args.problem = "decision"
    /\ \E p \in C27_Decisions :
          ScoreGeq(calculateRelevance("decision", files[p], parseInsightMetadata(files[p])),
                   Score(6, 10))

(***************************************************************************)
(* Properties of the facade over storage with a failing call (SpecFaults). *)
(***************************************************************************)

\* C8: when the write of the insight document succeeds, record does not fail
\* and the document stays in solutions/ with the recorded text, whichever step
\* of the rebuild of the index fails.
C8_RebuildFailureKeepsInsight ==
    ( /\ ret.op = "record"
      /\ insightPath(ret.args.insight) \notin ret.env.write
      /\ ret.env.mkdir \cap dirsTo(solutionsPath) = {} )
    => /\ ~ret.thrown
       /\ insightPath(ret.args.insight) \in DOMAIN files
       /\ files[insightPath(ret.args.insight)] = formatInsightContent(ret.args.insight, Today)

\* a record that returned normally although the write of the index failed
C8_Witness ==
    /\ ret.op = "record"
    /\ knowledgePath \in ret.env.write
    /\ knowledgePath \notin DOMAIN files
    /\ ~ret.thrown
    /\ insightPath(ret.args.insight) \in DOMAIN files

\* C9: when the read of one document fails, search, getContext and the
\* rebuild of the index do not fail and give what they give on the store
\* without that document: the same search results, the same categories and
\* lastActivity, the same index.
C9_UnreadableFileIsSkipped ==
    \A p \in documentsOf(store) :
        LET names(order, dir) ==
                LET other(name) == pathJoin(dir, name) # p IN SelectSeq(order, other)
            others == Store(dirs, [q \in DOMAIN files \ {p} |-> files[q]])
            working == WorkingEnv(names(ret.env.solOrder, solutionsPath),
                                  names(ret.env.docOrder, docsPath))
        IN  /\ (ret.op = "search" /\ ret.env.read = {p}) =>
                  ret.value = searchFacts(others, working, ret.args.query, ret.args.options)
            /\ (ret.op = "getContext" /\ ret.env.read = {p}) =>
                  LET context == getProjectContext(others, working, Today)
                  IN  /\ ~ret.thrown
                      /\ ret.value.categories = context.value.categories
                      /\ ret.value.lastActivity = context.value.lastActivity
            /\ (ret.op = "record" /\ ret.env.read = {p}) =>
                  /\ ~ret.thrown
                  /\ knowledgePath \in DOMAIN files
                  /\ files[knowledgePath]
                       = updateKnowledge(others, working, Today).st.files[knowledgePath]

\* a search that returned one document while the read of another failed
C9_Witness ==
    /\ ret.op = "search"
    /\ \E p \in documentsOf(store) :
          /\ ret.env.read = {p}
          /\ \E k \in DOMAIN ret.value :
                isDocument(ret.value[k].path) /\ ret.value[k].path # p

\* the directories of the store whose listing reaches the scan of an
\* operation run in env
C10_ListedDirs(env) ==
    IF localDocsPath \in env.access THEN {}
    ELSE IF solutionsPath \in dirs /\ solutionsPath \in env.readdir THEN {}
    ELSE {d \in {solutionsPath, docsPath} : d \notin env.access /\ d \notin env.readdir}

\* a failing exists or list call on the root, solutions/ or docs/
C10_ScanFault(env) ==
    \E d \in {localDocsPath, solutionsPath, docsPath} \cap dirs :
        d \in env.access \/ (d \in env.readdir /\ d # localDocsPath)

\* a failing read of the commands file
C10_CommandsFault(env) ==
    userCommandPath \in DOMAIN files /\ userCommandPath \in env.read

C11_WriteFails(insight, env) ==
    \/ insightPath(insight) \in env.write
    \/ dirsTo(solutionsPath) \cap env.mkdir # {}

\* C11: when the write of the insight document fails, record fails with an
\* error and leaves every file as it was: the documents of solutions/ and
\* docs/ keep their set and their text, and KNOWLEDGE.md is not rewritten.
C11_FailedWriteChangesNothing ==
    [][(ret.op = "idle" /\ ret'.op = "record"
          /\ C11_WriteFails(ret'.args.insight, ret'.env))
       => (ret'.thrown /\ files' = files)]_vars

\* a record that failed on the write of its document while another document
\* and the index were in the store
C11_Witness ==
    /\ ret.op = "record"
    /\ insightPath(ret.args.insight) \in ret.env.write
    /\ ret.thrown
    /\ insightPath(ret.args.insight) \notin DOMAIN files
    /\ knowledgePath \in DOMAIN files
    /\ documentsOf(store) # {}

(***************************************************************************)
(* Properties of interleaved records (SpecInterleaved).                    *)
(***************************************************************************)
\* both record operations have returned
C21_BothReturned ==
    ret.op = "records" /\ \A p \in {1, 2} : ret.value.pc[p] = "done"

\* the value of total_solutions in the header of KNOWLEDGE.md
C21_ReportedSolutions == Prop(parseInsightMetadata(files[knowledgePath]), "total_solutions")

\* the number of lines of the index that list the document of insight
C21_Listed(insight) ==
    LET lists(line) == startsWith(line, "- '" \o generateInsightFilename(insight) \o "' - ")
    IN  Len(SelectSeq(splitChar(files[knowledgePath], "\n"), lists))

\* C21: two records of insights with different file names, their storage
\* steps interleaved: once both have returned both documents are in
\* solutions/, and the index is the one of the operation that wrote
\* KNOWLEDGE.md last, with no merge: it reports the solutions that operation
\* found when it listed solutions/, its own document among them.
C21_LastWriterDecidesIndex ==
    C21_BothReturned =>
        /\ \A p \in {1, 2} : insightPath(ret.args.insights[p]) \in DOMAIN files
        /\ ret.value.lastIndex \in {1, 2}
        /\ C21_ReportedSolutions
             = ToString(Len(ret.value.solutionFiles[ret.value.lastIndex]))
        /\ C21_Listed(ret.args.insights[ret.value.lastIndex]) = 1

\* both operations have returned, both documents are in solutions/, and
\* KNOWLEDGE.md reports one solution and does not list the other document
C21_Witness ==
    /\ C21_BothReturned
    /\ \A p \in {1, 2} : insightPath(ret.args.insights[p]) \in DOMAIN files
    /\ Cardinality({q \in DOMAIN files : dirname(q) = solutionsPath}) = 2
    /\ C21_ReportedSolutions = "1"
    /\ \E p \in {1, 2} : C21_Listed(ret.args.insights[p]) = 0

(***************************************************************************)
(* Properties of the facade over dated documents (SpecActivity).           *)
(***************************************************************************)
\* the non-empty created_date values of the headers of the documents
C22_Dates ==
    {d \in {Prop(parseInsightMetadata(files[p]), "created_date") : p \in documentsOf(store)} :
        Truthy(d)}

\* C22: getContext on an existing collection returns as lastActivity the
\* most recent created_date of the headers of its documents, and the current
\* time exactly when no document has a non-empty created_date; factCount is
\* the number of *.md files of solutions/ and docs/.
C22_LastActivityIsLatestDate ==
    (ret.op = "getContext" /\ ~ret.thrown /\ localDocsPath \in dirs) =>
        /\ ret.value.factCount = Cardinality(documentsOf(store))
        /\ (ret.value.lastActivity = toISOString(Today)) <=> (C22_Dates = {})
        /\ C22_Dates # {} =>
              /\ ret.value.lastActivity \in C22_Dates
              /\ \A d \in C22_Dates : ~strLessFrom(ret.value.lastActivity, d, 1)

(***************************************************************************)
(* Properties of the parser of the commands file (SpecCommands).           *)
(***************************************************************************)
\* the names on the section-header lines of the text: the lines '## name'
C23_HeaderNames(content) ==
    LET isHeader(line) == startsWith(line, "## ")
        headers == SelectSeq(splitChar(content, "\n"), isHeader)
    IN  [i \in DOMAIN headers |-> trim(SubSeq(headers[i], 4, Len(headers[i])))]

\* C23: parsing the commands file yields at most one command per
\* section-header line: the name of each command is the text of a
\* section-header line, so the text before the first section header yields
\* no command, and no command lacks both name and description.
C23_CommandsAreSections ==
    ret.op = "parsed" =>
        /\ Len(ret.value) <= Len(C23_HeaderNames(ret.args.content))
        /\ \A i \in DOMAIN ret.value :
              /\ ret.value[i].command \in Range(C23_HeaderNames(ret.args.content))
              /\ ~(ret.value[i].command = "" /\ ret.value[i].description = "")

====
